---- MODULE Spec2Model ----
(***************************************************************************)
(* A model of the cache layer of chialab/sveltekit-utils: the jitter       *)
(* functions, BaseCache.remember, the Map-backed InMemoryCache with its    *)
(* deferred housekeeping, the kv.js-backed InMemoryCache, S3Cache and      *)
(* RedisCache; of the Session that is loaded from and persisted to a       *)
(* storage; and of the utilities backoffRetry and asyncIterablePool.       *)
(*                                                                         *)
(* One behaviour is one program using one backend (the variable backend,   *)
(* fixed by Init); each backend has its own specification.  Strings are    *)
(* sequences of one-character strings, so that startsWith, substring and   *)
(* glob matching are computed as the code computes them.  A JavaScript     *)
(* `T | undefined` is the set {} (undefined) or {x} (the value x).  Time   *)
(* is Date.now() in milliseconds.                                          *)
(***************************************************************************)
EXTENDS Integers, Sequences, FiniteSets, TLC

VARIABLES
    backend,        \* which cache class this program instantiates
    options,        \* the options the root cache was constructed with
    now,            \* Date.now(), milliseconds
    inner,          \* Map-backed InMemoryCache.#inner: entries in insertion order
    immediates,     \* the event loop's setImmediate queue (FIFO)
    store,          \* kv.js-backed InMemoryCache.#inner: the kv.js store
    bucket,         \* the objects of the S3 bucket
    pending,        \* S3: keys with a DeleteObject sent by get() still in flight
    calls,          \* the calls of remember(), one per caller
    written,        \* history: for each full key, the last set() of that key
    plain,          \* history: the program has only inserted new keys without
                    \* ttl through the root cache, and read
    last,           \* the operation that has just completed, with its result
    storageKind,    \* sessions: what the session storage hands out and keeps
    heap,           \* sessions: the data bags in memory, by object
    storage,        \* sessions: the object stored under each session id
    cookies,        \* sessions: the session cookie of each request
    flows,          \* sessions: the Session.with call of each request
    cells,          \* a Session object: the objects its values are made of
    session,        \* a Session object: #data, #dirty and its remember() call
    held,           \* a Session object: the objects user code holds
    redis,          \* RedisCache: the client, its database and the calls in progress
    retry,          \* one call of backoffRetry
    pool            \* one iteration of asyncIterablePool

vars == <<backend, options, now, inner, immediates, store, bucket, pending, calls,
          written, plain, last, storageKind, heap, storage, cookies, flows,
          cells, session, held, redis, retry, pool>>

sessVars == <<storageKind, heap, storage, cookies, flows>>
objVars == <<cells, session, held>>
utilVars == <<redis, retry, pool>>

----------------------------------------------------------------------------
(* Bounds of the model.                                                    *)

\* Callbacks waiting in the setImmediate queue when set or clear is called.
MaxPending == 1
\* The programs that interleave set and clear with the deferred batches
\* (backend "sweep") call them with one callback more in the queue.
PendingCap == IF backend = "sweep" THEN MaxPending + 1 ELSE MaxPending
\* Math.random() is drawn from {0/RandDen, ..., (RandDen-1)/RandDen}.
RandDen == 2
\* Entries evaluated per tick by #processBatch.  The source evaluates 1000;
\* the tables of this model hold a handful of entries, and the batch is
\* scaled with them so that a sweep spans several ticks.
BatchSize == 2

----------------------------------------------------------------------------
(* Values of the program.                                                  *)

Undefined == {}
Some(x) == {x}
The(s) == CHOOSE x \in s : TRUE

\* Math.random(): the numerators n of n/RandDen, in [0, 1).
Rand == 0 .. (RandDen - 1)

\* The instants at which the program reads the clock.
TimePoints == {1000, 1999, 2001}

\* The ttl arguments, in seconds.
TTLs == {1}

\* The values stored in the caches.
Values == {"v1", "v2"}

----------------------------------------------------------------------------
(* Strings.                                                                *)

\* String.prototype.startsWith
StartsWith(s, p) == Len(p) <= Len(s) /\ SubSeq(s, 1, Len(p)) = p

\* String.prototype.substring(n), String.prototype.slice(n)
Substring(s, n) == SubSeq(s, n + 1, Len(s))

\* The prefixes given to child(...) of the root cache "base", or as keyPrefix
\* option.
ChildArg(c) ==
    CASE c = "foo"  -> <<"f", ":">>
      [] c = "bar"  -> <<"b", ":">>
      [] c = "star" -> <<"*", ":">>

\* options.keyPrefix of each instance: base has none, a child has the prefix
\* of its parent followed by the argument of child().
KeyPrefix(c) == IF c = "base" THEN Undefined ELSE Some(<<>> \o ChildArg(c))

\* `this.#options.keyPrefix ?? ''`
PrefixOrEmpty(c) == IF KeyPrefix(c) = Undefined THEN <<>> ELSE The(KeyPrefix(c))

\* #key(key), #buildKey(key), addPrefix(keyPrefix, key): the key including
\* the prefix.
Key(c, key) == PrefixOrEmpty(c) \o key

\* #stripPrefix(key), stripPrefix(keyPrefix, key): undefined when key does not
\* start with the prefix.
StripPrefix(c, key) ==
    IF ~StartsWith(key, PrefixOrEmpty(c))
    THEN Undefined
    ELSE Some(Substring(key, Len(PrefixOrEmpty(c))))

\* `prefix ?? ''`
OrEmpty(prefix) == IF prefix = Undefined THEN <<>> ELSE The(prefix)

\* The keys the program passes to each instance: base also addresses the
\* children's entries under the composed keys.
CallKeys(c) ==
    IF c = "base"
    THEN {<<"k">>, <<"f", ":", "k">>}
    ELSE {<<"k">>}

\* Every full key of a store the program addresses.
FullKeys == {<<"k">>, <<"f", ":", "k">>, <<"*", ":", "k">>}

\* The prefix arguments the program passes to keys() and clear().
PrefixArgs(c) ==
    IF c = "base" THEN {Undefined, Some(<<"f", ":">>)} ELSE {Undefined, Some(<<"k">>)}

----------------------------------------------------------------------------
(* Jitter (utils/misc).  A jittered value is the exact rational            *)
(* JitterNum / JitterDen, Math.random() being n / RandDen.                 *)

JitterModes == {"none", "full", "equal"}

JitterDen == 2 * RandDen

\* jitter[mode](value), as a numerator over JitterDen.
JitterNum(mode, n, value) ==
    CASE mode = "none"  -> value * JitterDen
      [] mode = "full"  -> n * value * 2
      [] mode = "equal" -> (RandDen + n) * value

\* The functions the program passes to createJitter instead of a policy
\* name: (value) => value * 2.
JitterFns == {"double"}

\* The properties the table `jitter`, an object literal, inherits from
\* Object.prototype (toString, valueOf, constructor, hasOwnProperty, ...).
ObjectPrototype == {"toString"}

\* createJitter(mode): a function is returned as it is; anything else is
\* looked up in the table, `jitter[mode] ?? jitter[JitterMode.None]`, and the
\* lookup finds the table's own properties and the inherited ones.
CreateJitter(mode) ==
    IF mode \in JitterFns THEN mode
    ELSE IF mode \in JitterModes \cup ObjectPrototype THEN mode
    ELSE "none"

\* `jitter ?? this.#options.defaultJitter ?? JitterMode.None`
JitterArg(jitter) ==
    IF jitter # Undefined THEN The(jitter)
    ELSE IF options.defaultJitter # Undefined THEN The(options.defaultJitter)
    ELSE "none"

\* `ttl ??= this.#options.defaultTTL`
TtlArg(ttl) == IF ttl # Undefined THEN ttl ELSE options.defaultTTL

\* Math.floor of a jittered value.  Date.now() is a whole number, so
\* `expire >= now` reads the same on the floor of expire.
Floor(num) == num \div JitterDen

\* Math.round of a jittered value (halves round up).
Round(num) == (2 * num + JitterDen) \div (2 * JitterDen)

----------------------------------------------------------------------------
(* History variables.                                                      *)

\* No operation has just completed (the clock has moved since).
Idle == [op |-> "idle", key |-> <<>>, result |-> {}]

\* Operation op on the full key `key` has completed with `result`.
Done(op, key, result) == [op |-> op, key |-> key, result |-> result]

\* The record of a set() call: the value written, the time of the call, the
\* ttl in force (seconds), the jitter policy in force and the draw of
\* Math.random(), whether the backend accepted the write, and whether a
\* deferred deletion has since removed the entry.
Written(value, ttl, mode, n, ok) ==
    Some([value |-> value, at |-> now, ttl |-> ttl, mode |-> mode, n |-> n,
          ok |-> ok, swept |-> FALSE])

\* The history of the keys in `touched` is forgotten once the program deletes
\* or clears them.
Forget(w, touched) == [k \in DOMAIN w |-> IF k \in touched THEN Undefined ELSE w[k]]

\* The history after a deferred deletion has removed `key`.
Sweep(w, key) ==
    IF w[key] # Undefined
    THEN [w EXCEPT ![key] = Some([The(w[key]) EXCEPT !.swept = TRUE])]
    ELSE w

\* The variables of the backends other than the Map-backed InMemoryCache.
kvVars == <<store>>
s3Vars == <<bucket, pending>>
memVars == <<inner, immediates>>

----------------------------------------------------------------------------
(* Sessions: the values of the session layer.                              *)

\* The data bags the heap has room for.
MaxObjs == 4
Objs == 1 .. MaxObjs

\* The requests; each carries its own cookie jar and calls Session.with once.
Flows == {"r1", "r2"}

\* The keys and values user code keeps in a session.
SessKeys == {"a"}
SessValues == {"x", "y"}

\* A data bag: Partial<Record<string, unknown>>.
EmptyBag == [k \in SessKeys |-> Undefined]

\* The values of the session cookie a request arrives with: none, the empty
\* string, an id the storage does not know, and the id of a stored session.
CookieArgs == {Undefined, Some(""), Some("s0"), Some("s1")}

\* The ids secureId() generates.
NewIds == {"n1", "n2"}
SessIds == {"s0", "s1"} \cup NewIds

\* The kinds of storage: "object" keeps the object it is given and hands
\* out the object it keeps, and its get and set act when they are called
\* (InMemoryStorage, the Map-backed cache); "copy" keeps and hands out
\* copies, and its get and set act when their promises settle.
StorageKinds == {"object", "copy"}

\* A request whose Session.with has not been called.
NoFlow ==
    [pc |-> "idle", init |-> "none", sid |-> Undefined, got |-> Undefined, cause |-> Undefined,
     sess |-> Undefined, cb |-> "none", persist |-> "none", arg |-> Undefined, will |-> FALSE,
     result |-> Undefined, gets |-> 0, sets |-> 0, invoked |-> 0, cookieSets |-> 0,
     unhandled |-> FALSE]

\* A program without sessions.
NoSessions ==
    /\ storageKind = "object"
    /\ heap = [o \in Objs |-> EmptyBag]
    /\ storage = [i \in SessIds |-> Undefined]
    /\ cookies = [f \in Flows |-> Undefined]
    /\ flows = [f \in Flows |-> NoFlow]

----------------------------------------------------------------------------
(* A Session object on its own: the values of its data.                    *)

\* The objects the memory has room for.
MaxCells == 6
Cells == 1 .. MaxCells

\* A value of the session is an object that holds a primitive (tag) and an
\* inner object that holds a primitive: ['hello world', { answer: 42 }].
\* Only the primitives (0 or 1) change.
Inner(tag) == [tag |-> tag, inner |-> Undefined]
Outer(tag, cell) == [tag |-> tag, inner |-> Some(cell)]
\* A place in memory that holds no object.
FreeCell == [tag |-> -1, inner |-> Undefined]

\* A program without a Session object of its own.
NoObject ==
    /\ cells = [c \in Cells |-> FreeCell]
    /\ session = [data |-> EmptyBag, dirty |-> FALSE, pending |-> Undefined, invoked |-> 0]
    /\ held = [c \in Cells |-> "none"]

----------------------------------------------------------------------------
(* Values of RedisCache, backoffRetry and asyncIterablePool.               *)

\* The callers of one RedisCache instance; each has at most one call in
\* progress.
RedisCallers == {"q1", "q2"}

\* The keys of the Redis database the program addresses.
RedisKeys == {<<"k">>}

\* A caller with no call on the RedisCache instance.
NoCommand ==
    [pc |-> "idle", op |-> "none", key |-> <<>>, value |-> Undefined, ttl |-> Undefined,
     jitter |-> Undefined, ex |-> Undefined, result |-> Undefined]

\* RedisCache.init(redisOptions, options): the client is created and not
\* connected, #connectPromise is undefined.  `connects` counts the calls of
\* client.connect(); `early` records that a command was issued to the client
\* while its connect promise had not resolved.
NoRedis ==
    redis = [connect |-> "none", connects |-> 0, early |-> FALSE,
             db |-> [k \in RedisKeys |-> Undefined],
             procs |-> [q \in RedisCallers |-> NoCommand]]

\* backoffRetry has not been called.  `invoked` counts the calls of factory,
\* `yields` lists what they settled with, `delays` the arguments of
\* timeout(), as numerators over JitterDen.
NoRetry ==
    retry = [pc |-> "idle", baseMs |-> 0, capMs |-> 0, maxAttempts |-> 0, jitter |-> "none",
             attempt |-> 0, invoked |-> 0, yields |-> <<>>, delays |-> <<>>,
             result |-> Undefined]

\* The jobs given to asyncIterablePool are at most MaxJobs, the concurrency
\* at most MaxConcurrency.
MaxJobs == 4
MaxConcurrency == 3
Jobs == 1 .. MaxJobs

\* asyncIterablePool has not been called.  `started` counts the jobs taken
\* from the iterable and started, `pool` holds the jobs of the Map,
\* `winner` is the job whose promise settles Promise.race, `yielded` lists
\* the jobs in the order their results were yielded, `atStart` is the
\* largest size the Map had when a job was started.
NoPool ==
    pool = [pc |-> "idle", concurrency |-> 0, njobs |-> 0, started |-> 0,
            status |-> [j \in Jobs |-> "unstarted"], pool |-> {}, winner |-> Undefined,
            yielded |-> <<>>, atStart |-> 0]

NoUtils == NoRedis /\ NoRetry /\ NoPool

----------------------------------------------------------------------------
(* Promises and the calls of BaseCache.remember.                           *)

\* The outcome of a promise: fulfilled with a value (or with undefined), or
\* rejected with a reason.
Fulfilled(value) == [status |-> "fulfilled", value |-> value]
Rejected(reason) == [status |-> "rejected", value |-> Some(reason)]

\* The callers of remember(); each has at most one call in progress.
Callers == {"p1", "p2"}

\* A caller that has not called remember() yet.
NoCall ==
    [pc |-> "idle", cache |-> "base", key |-> <<>>, ttl |-> Undefined, cached |-> Undefined,
     outcome |-> Undefined, invoked |-> 0, wrote |-> FALSE, result |-> Undefined]

----------------------------------------------------------------------------
(* The state every program starts in: nothing stored, nothing queued, no   *)
(* call in progress.                                                       *)

CacheStart(b) ==
    /\ backend = b
    /\ now = CHOOSE t \in TimePoints : \A u \in TimePoints : t <= u
    /\ inner = <<>>
    /\ immediates = <<>>
    /\ store = [k \in FullKeys |-> Undefined]
    /\ bucket = [k \in FullKeys |-> Undefined]
    /\ pending = {}
    /\ calls = [p \in Callers |-> NoCall]
    /\ written = [k \in FullKeys |-> Undefined]
    /\ plain = TRUE
    /\ last = Idle

Start(b) == CacheStart(b) /\ NoSessions /\ NoObject /\ NoUtils

----------------------------------------------------------------------------
(* The Map-backed InMemoryCache.  #inner is a Map: a sequence of entries   *)
(* [key, value, expire] in insertion order.  An iterator of the Map is the *)
(* number of entries it has passed; deleting a passed entry moves it back. *)

MapIndex(m, key) ==
    IF \E i \in 1 .. Len(m) : m[i].key = key
    THEN CHOOSE i \in 1 .. Len(m) : m[i].key = key
    ELSE 0

\* Map.prototype.get
MapGet(m, key) == IF MapIndex(m, key) = 0 THEN Undefined ELSE Some(m[MapIndex(m, key)])

\* A set that keeps the entry a key already has.
MapSetIfAbsent(m, key, value, expire) ==
    IF MapIndex(m, key) = 0
    THEN Append(m, [key |-> key, value |-> value, expire |-> expire])
    ELSE m

\* Map.prototype.set: an existing key keeps its place.
MapSet(m, key, value, expire) ==
    LET e == [key |-> key, value |-> value, expire |-> expire]
    IN  IF MapIndex(m, key) = 0 THEN Append(m, e) ELSE [m EXCEPT ![MapIndex(m, key)] = e]

RemoveAt(m, i) == SubSeq(m, 1, i - 1) \o SubSeq(m, i + 1, Len(m))

\* A queued continuation after the deletion of the i-th entry of the Map.
ShiftTask(t, i) ==
    IF t.pos # Undefined /\ The(t.pos) >= i THEN [t EXCEPT !.pos = Some(The(t.pos) - 1)] ELSE t

ShiftQueue(q, i) == [j \in 1 .. Len(q) |-> ShiftTask(q[j], i)]

\* A deletion written with indexOf and splice: for a key that is not there it
\* removes the last entry.
MapDeleteSplice(st, key) ==
    LET i == IF MapIndex(st.inner, key) = 0 THEN Len(st.inner) ELSE MapIndex(st.inner, key)
    IN  IF i = 0 THEN st
        ELSE [st EXCEPT !.inner = RemoveAt(st.inner, i), !.queue = ShiftQueue(st.queue, i)]

\* Map.prototype.delete, with its effect on the live iterators.
MapDelete(st, key) ==
    LET i == MapIndex(st.inner, key)
    IN  IF i = 0 THEN st
        ELSE [st EXCEPT !.inner = RemoveAt(st.inner, i), !.queue = ShiftQueue(st.queue, i)]

\* static #isValid(cached, now)
IsValid(cached, at) ==
    IF cached.expire = Undefined THEN TRUE ELSE The(cached.expire) >= at

\* An eviction that does not look at the capacity.
DropAlways(n, count) == TRUE

\* `dropProbability > 0 && Math.random() < dropProbability`, where
\* dropProbability = max(0, count / maxItems - 1) and Math.random() = n / RandDen.
Drop(n, count) ==
    /\ options.maxItems # Undefined
    /\ count > The(options.maxItems)
    /\ n * The(options.maxItems) < (count - The(options.maxItems)) * RandDen

\* The number of items of cache c, as #housekeeping counts them.
CountItems(m, c) == Cardinality({i \in 1 .. Len(m) : StripPrefix(c, m[i].key) # Undefined})

\* The filter given to #processBatch: the sweep of #housekeeping, or the
\* selection of clear().
Filter(task, stripped, cached, n) ==
    IF task.kind = "housekeeping"
    THEN ~IsValid(cached, task.now) \/ Drop(n, task.count)
    ELSE task.prefix = Undefined \/ StartsWith(stripped, The(task.prefix))

\* #processBatch from its i-th iteration on: rs[i] is the draw of Math.random()
\* of that iteration.  st holds the Map, the other queued continuations, the
\* iterator of this batch and the history.
RECURSIVE ProcessBatch(_, _, _, _)
ProcessBatch(st, task, rs, i) ==
    IF i > BatchSize
    THEN [st EXCEPT !.queue = Append(st.queue, [task EXCEPT !.pos = Some(st.pos)])]
    ELSE IF st.pos >= Len(st.inner)
    THEN st
    ELSE LET e == st.inner[st.pos + 1]
             stripped == StripPrefix(task.cache, e.key)
         IN  IF stripped # Undefined /\ Filter(task, The(stripped), e, rs[i])
             THEN ProcessBatch([MapDelete(st, e.key) EXCEPT
                                    !.written = Sweep(st.written, e.key)],
                               task, rs, i + 1)
             ELSE ProcessBatch([st EXCEPT !.pos = st.pos + 1], task, rs, i + 1)

\* A batch evaluated now on the Map m, its iterator having passed pos entries.
RunBatch(m, q, w, task, pos, rs) ==
    ProcessBatch([inner |-> m, queue |-> q, pos |-> pos, written |-> w], task, rs, 1)

\* The callback #housekeeping gives to setImmediate (its iterator is created
\* when the callback runs), or the batches of clear().
Task(kind, c, at, count, prefix) ==
    [kind |-> kind, cache |-> c, pos |-> Undefined, now |-> at, count |-> count,
     prefix |-> prefix]

\* A #housekeeping() that schedules nothing.
HousekeepingUnscheduled(q, m, c) == q

\* #housekeeping(): the queue after the sweep has been scheduled.
Housekeeping(q, m, c) == Append(q, Task("housekeeping", c, now, CountItems(m, c), Undefined))

\* What get(key) of cache c returns.
MemGetResult(c, key) ==
    LET cached == MapGet(inner, Key(c, key))
    IN  IF cached = Undefined THEN Undefined
        ELSE IF ~IsValid(The(cached), now) THEN Undefined
        ELSE Some(The(cached).value)

\* The body of get(key): an expired entry is deleted.
MemGetBody(c, key) ==
    LET cached == MapGet(inner, Key(c, key))
        st == MapDelete([inner |-> inner, queue |-> immediates], Key(c, key))
    IN  IF cached # Undefined /\ ~IsValid(The(cached), now)
        THEN /\ inner' = st.inner
             /\ immediates' = st.queue
        ELSE UNCHANGED <<inner, immediates>>

\* get(key)
MemGet(c, key) ==
    /\ MemGetBody(c, key)
    /\ last' = Done("get", Key(c, key), MemGetResult(c, key))
    /\ UNCHANGED <<backend, sessVars, objVars, utilVars, options, now, kvVars, s3Vars, calls, written, plain>>

\* An expiry that adds the seconds of the ttl to the milliseconds of the clock.
MemExpireSeconds(ttl, mode, n) ==
    IF ttl # Undefined
    THEN Some(now + Floor(JitterNum(mode, n, The(ttl))))
    ELSE Undefined

\* The expiry set(key, value, ttl, jitter) computes.
MemExpire(ttl, mode, n) ==
    IF ttl # Undefined
    THEN Some(now + Floor(JitterNum(mode, n, The(ttl) * 1000)))
    ELSE Undefined

\* The body of set(key, value, ttl, jitter), with the #housekeeping() it ends
\* with.
MemSetBody(c, key, value, ttlArg, jitterArg, n) ==
    LET ttl == TtlArg(ttlArg)
        mode == CreateJitter(JitterArg(jitterArg))
        m == MapSet(inner, Key(c, key), value, MemExpire(ttl, mode, n))
    IN  /\ (ttl = Undefined \/ mode = "none") => n = 0
        /\ inner' = m
        /\ immediates' = Housekeeping(immediates, m, c)
        /\ written' = [written EXCEPT ![Key(c, key)] = Written(value, ttl, mode, n, TRUE)]
        /\ plain' = (plain /\ c = "base" /\ ttl = Undefined /\ written[Key(c, key)] = Undefined)

\* set(key, value, ttl, jitter)
MemSet(c, key, value, ttlArg, jitterArg, n) ==
    /\ Len(immediates) < PendingCap
    /\ MemSetBody(c, key, value, ttlArg, jitterArg, n)
    /\ last' = Done("set", Key(c, key), Some(value))
    /\ UNCHANGED <<backend, sessVars, objVars, utilVars, options, now, kvVars, s3Vars, calls>>

\* delete(key).  The result recorded is what Map.prototype.delete returns
\* (whether the key existed), which the cache discards.
MemDelete(c, key) ==
    /\ LET st == MapDelete([inner |-> inner, queue |-> immediates], Key(c, key))
       IN  /\ inner' = st.inner
           /\ immediates' = st.queue
    /\ written' = Forget(written, {Key(c, key)})
    /\ plain' = FALSE
    /\ last' = Done("delete", Key(c, key), Some(MapGet(inner, Key(c, key)) # Undefined))
    /\ UNCHANGED <<backend, sessVars, objVars, utilVars, options, now, kvVars, s3Vars, calls>>

\* The keys keys(prefix) yields.
MemKeysOf(m, c, prefix) ==
    {The(StripPrefix(c, m[i].key)) : i \in
        {j \in 1 .. Len(m) :
            /\ StripPrefix(c, m[j].key) # Undefined
            /\ StartsWith(The(StripPrefix(c, m[j].key)), OrEmpty(prefix))}}

\* keys(prefix), iterated to its end.
MemKeys(c, prefix) ==
    /\ last' = Done("keys", Key(c, OrEmpty(prefix)), MemKeysOf(inner, c, prefix))
    /\ UNCHANGED <<backend, sessVars, objVars, utilVars, options, now, memVars, kvVars, s3Vars, calls, written, plain>>

\* The full keys clear(prefix) of cache c selects.
Selected(c, prefix) ==
    {k \in FullKeys :
        /\ StripPrefix(c, k) # Undefined
        /\ StartsWith(The(StripPrefix(c, k)), OrEmpty(prefix))}

\* clear(prefix): the first batch runs inside the call.
MemClear(c, prefix) ==
    /\ Len(immediates) < PendingCap
    /\ IF prefix # Undefined \/ KeyPrefix(c) # Undefined
       THEN LET st == RunBatch(inner, immediates, Forget(written, Selected(c, prefix)),
                               Task("clear", c, now, 0, prefix), 0,
                               [i \in 1 .. BatchSize |-> 0])
            IN  /\ inner' = st.inner
                /\ immediates' = st.queue
                /\ written' = Forget(st.written, Selected(c, prefix))
       ELSE /\ inner' = <<>>
            /\ immediates' = [j \in 1 .. Len(immediates) |->
                                 IF immediates[j].pos = Undefined THEN immediates[j]
                                 ELSE [immediates[j] EXCEPT !.pos = Some(0)]]
            /\ written' = Forget(written, Selected(c, prefix))
    /\ plain' = FALSE
    /\ last' = Done("clear", Key(c, OrEmpty(prefix)), Undefined)
    /\ UNCHANGED <<backend, sessVars, objVars, utilVars, options, now, kvVars, s3Vars, calls>>

\* The event loop runs the callback at the head of the setImmediate queue:
\* the first batch of a sweep (which creates the iterator) or a continuation.
RunImmediate(rs) ==
    /\ immediates # <<>>
    /\ LET task == Head(immediates)
           st == RunBatch(inner, Tail(immediates), written, task,
                          IF task.pos = Undefined THEN 0 ELSE The(task.pos), rs)
       IN  /\ (task.kind = "clear" \/ ~Drop(0, task.count)) => \A i \in 1 .. BatchSize : rs[i] = 0
           /\ inner' = st.inner
           /\ immediates' = st.queue
           /\ written' = st.written
    /\ last' = Done("immediate", <<>>, Undefined)
    /\ UNCHANGED <<backend, sessVars, objVars, utilVars, options, now, kvVars, s3Vars, calls, plain>>

----------------------------------------------------------------------------
(* The clock.                                                              *)

Tick(t) ==
    /\ t > now
    /\ now' = t
    /\ last' = Idle
    /\ UNCHANGED <<backend, sessVars, objVars, utilVars, options, memVars, kvVars, s3Vars, calls, written, plain>>

----------------------------------------------------------------------------
(* The program that uses the Map-backed InMemoryCache: the root cache      *)
(* "base" and its child "foo".                                             *)

MemCaches == {"base", "foo"}

\* The ttl and jitter arguments of the program: it gives a ttl to the key 'k'
\* of the root cache only.
TtlArgs(c, key) ==
    IF c = "base" /\ key = <<"k">> THEN {Undefined} \cup {Some(t) : t \in TTLs} ELSE {Undefined}

JitterArgs(ttl) ==
    IF ttl = Undefined THEN {Undefined} ELSE {Undefined, Some("full"), Some("equal")}

\* InMemoryCache.init(options)
MemInit ==
    /\ Start("memory")
    /\ options \in [maxItems : {Undefined, Some(1)},
                    defaultTTL : {Undefined},
                    defaultJitter : {Undefined}]

MemNext ==
    \/ \E c \in MemCaches : \E key \in CallKeys(c) : MemGet(c, key)
    \/ \E c \in MemCaches : \E key \in CallKeys(c) : \E v \in Values, ttl \in TtlArgs(c, key) :
          \E j \in JitterArgs(ttl), n \in Rand : MemSet(c, key, v, ttl, j, n)
    \/ \E c \in MemCaches : \E key \in CallKeys(c) : MemDelete(c, key)
    \/ \E c \in MemCaches : \E prefix \in PrefixArgs(c) : MemKeys(c, prefix)
    \/ \E c \in MemCaches : \E prefix \in PrefixArgs(c) : MemClear(c, prefix)
    \/ \E rs \in [1 .. BatchSize -> Rand] : RunImmediate(rs)
    \/ \E t \in TimePoints : Tick(t)

MemSpec == MemInit /\ [][MemNext]_vars

----------------------------------------------------------------------------
(* The kv.js-backed InMemoryCache.  The kv.js store maps each key to its   *)
(* value and the instant its PX option makes it expire at; kv.js answers   *)
(* get and keys from the entries that have not expired, and matches the    *)
(* pattern of keys as a glob in which `*` stands for any run of            *)
(* characters, as the calls and tests of the cache rely on.                *)

\* Math.ceil of a jittered value.  Date.now() is a whole number, so
\* `now < expire` reads the same on the ceiling of expire.
Ceil(num) == 0 - ((0 - num) \div JitterDen)

\* kv.js: the entry of key k is there and has not expired.
KvLive(s, k) ==
    /\ s[k] # Undefined
    /\ (The(s[k]).expire = Undefined \/ now < The(The(s[k]).expire))

\* kv.js: the glob `pattern` matches the whole of s.
RECURSIVE Glob(_, _)
Glob(pattern, s) ==
    IF pattern = <<>> THEN s = <<>>
    ELSE IF Head(pattern) = "*"
    THEN Glob(Tail(pattern), s) \/ (s # <<>> /\ Glob(pattern, Tail(s)))
    ELSE s # <<>> /\ Head(s) = Head(pattern) /\ Glob(Tail(pattern), Tail(s))

\* kv.js: keys(pattern)
KvKeysMatching(s, pattern) == {k \in DOMAIN s : KvLive(s, k) /\ Glob(pattern, k)}

\* A del that is given the array of keys as one argument deletes nothing.
KvDelNothing(s, keys) == s

\* kv.js: del(...keys)
KvDel(s, keys) == [k \in DOMAIN s |-> IF k \in keys THEN Undefined ELSE s[k]]

\* What get(key) of cache c returns.
KvGetResult(c, key) ==
    IF KvLive(store, Key(c, key)) THEN Some(The(store[Key(c, key)]).value) ELSE Undefined

\* get(key)
KvGet(c, key) ==
    /\ last' = Done("get", Key(c, key), KvGetResult(c, key))
    /\ UNCHANGED <<backend, sessVars, objVars, utilVars, options, now, memVars, kvVars, s3Vars, calls, written, plain>>

\* The PX option set(key, value, ttl, jitter) computes, as the instant of
\* expiry.
KvExpire(ttl, mode, n) ==
    IF ttl # Undefined
    THEN Some(now + Ceil(JitterNum(mode, n, The(ttl) * 1000)))
    ELSE Undefined

\* set(key, value, ttl, jitter)
KvSet(c, key, value, ttlArg, jitterArg, n) ==
    /\ LET ttl == TtlArg(ttlArg)
           mode == CreateJitter(JitterArg(jitterArg))
       IN  /\ (ttl = Undefined \/ mode = "none") => n = 0
           /\ store' = [store EXCEPT ![Key(c, key)] =
                            Some([value |-> value, expire |-> KvExpire(ttl, mode, n)])]
           /\ written' = [written EXCEPT ![Key(c, key)] = Written(value, ttl, mode, n, TRUE)]
    /\ last' = Done("set", Key(c, key), Some(value))
    /\ UNCHANGED <<backend, sessVars, objVars, utilVars, options, now, memVars, s3Vars, calls, plain>>

\* delete(key)
KvDelete(c, key) ==
    /\ store' = KvDel(store, {Key(c, key)})
    /\ written' = Forget(written, {Key(c, key)})
    /\ last' = Done("delete", Key(c, key), Some(KvLive(store, Key(c, key))))
    /\ UNCHANGED <<backend, sessVars, objVars, utilVars, options, now, memVars, s3Vars, calls, plain>>

\* The keys keys(prefix) yields: the matches of the pattern, each through
\* stripPrefix.
KvKeysOf(s, c, prefix) ==
    {StripPrefix(c, k) : k \in KvKeysMatching(s, Key(c, OrEmpty(prefix) \o <<"*">>))}

\* keys(prefix), iterated to its end.
KvKeys(c, prefix) ==
    /\ last' = Done("keys", Key(c, OrEmpty(prefix)), KvKeysOf(store, c, prefix))
    /\ UNCHANGED <<backend, sessVars, objVars, utilVars, options, now, memVars, kvVars, s3Vars, calls, written, plain>>

\* The body of clearPattern(pattern).
KvClearPatternBody(c, pattern) ==
    LET keys == KvKeysMatching(store, Key(c, pattern))
    IN  /\ store' = KvDel(store, keys)
        /\ written' = Forget(written, keys)

\* clearPattern(pattern).  The result recorded is the keys given to del.
KvClearPattern(c, pattern) ==
    /\ KvClearPatternBody(c, pattern)
    /\ last' = Done("clearPattern", Key(c, pattern), KvKeysMatching(store, Key(c, pattern)))
    /\ UNCHANGED <<backend, sessVars, objVars, utilVars, options, now, memVars, s3Vars, calls, plain>>

\* clear(prefix): clearPattern((prefix ?? '') + '*')
KvClear(c, prefix) ==
    /\ KvClearPatternBody(c, OrEmpty(prefix) \o <<"*">>)
    /\ last' = Done("clear", Key(c, OrEmpty(prefix)),
                    KvKeysMatching(store, Key(c, OrEmpty(prefix) \o <<"*">>)))
    /\ UNCHANGED <<backend, sessVars, objVars, utilVars, options, now, memVars, s3Vars, calls, plain>>

----------------------------------------------------------------------------
(* The program that uses the kv.js-backed InMemoryCache: the root cache    *)
(* "base" and its children "foo" and "star".                               *)

KvCaches == {"base", "foo", "star"}

\* The keys the program passes to each instance.
KvCallKeys(c) == IF c = "base" THEN FullKeys ELSE {<<"k">>}

\* The patterns the program passes to clearPattern(); the last of each set
\* matches nothing.
Patterns(c) ==
    IF c = "base"
    THEN {<<"*">>, <<"*", ":", "k">>, <<"f", ":", "*">>, <<"z">>}
    ELSE {<<"*">>, <<"k">>, <<"z">>}

\* The ttl arguments a set() can be given; the program leaves the jitter to
\* its default.
KvTtlArgs == {Undefined} \cup {Some(t) : t \in TTLs}

\* InMemoryCache.init(options)
KvInit ==
    /\ Start("kv")
    /\ options \in [defaultTTL : {Undefined}, defaultJitter : {Undefined}]

KvNext ==
    \/ \E c \in KvCaches : \E key \in KvCallKeys(c) : KvGet(c, key)
    \/ \E c \in KvCaches : \E key \in KvCallKeys(c) : \E v \in Values, ttl \in TtlArgs(c, key) :
          KvSet(c, key, v, ttl, Undefined, 0)
    \/ \E c \in KvCaches : \E key \in KvCallKeys(c) : KvDelete(c, key)
    \/ \E c \in KvCaches : \E prefix \in PrefixArgs(c) : KvKeys(c, prefix)
    \/ \E c \in KvCaches : \E prefix \in PrefixArgs(c) : KvClear(c, prefix)
    \/ \E c \in KvCaches : \E pattern \in Patterns(c) : KvClearPattern(c, pattern)
    \/ \E t \in TimePoints : Tick(t)

KvSpec == KvInit /\ [][KvNext]_vars

----------------------------------------------------------------------------
(* S3Cache.  The bucket maps each object key to its body and to the        *)
(* 'expires-at' entry of its metadata.  A command the client sends either  *)
(* succeeds (ok) or is rejected.                                           *)

\* `Metadata: expiresAt ? { 'expires-at': `${expiresAt}` } : {}`
Metadata(expiresAt) ==
    IF expiresAt # Undefined /\ The(expiresAt) # 0 THEN expiresAt ELSE Undefined

\* The expiry set(key, value, ttl, jitter) computes.
S3ExpiresAt(ttl, mode, n) ==
    IF ttl # Undefined
    THEN Some(now + Round(JitterNum(mode, n, The(ttl))))
    ELSE Undefined

\* `expiresAtStr && Date.now() > Number.parseInt(expiresAtStr, 10)`
S3Expired(obj) == obj.expiresAt # Undefined /\ now > The(obj.expiresAt)

\* What get(key) of cache c returns when GetObject succeeds or is rejected;
\* GetObject of a missing object is rejected.
S3GetResult(c, key, ok) ==
    LET obj == bucket[Key(c, key)]
    IN  IF ~ok \/ obj = Undefined THEN Undefined
        ELSE IF S3Expired(The(obj)) THEN Undefined
        ELSE Some(The(obj).body)

\* get(key): an expired object is deleted without awaiting the deletion.
\* The body of a live object is read by `return res.Body.transformToByteArray()`,
\* whose promise is returned without being awaited inside the try block: when
\* reading fails (~body) the promise of get is rejected with that error.
S3Get(c, key, ok, body) ==
    /\ LET obj == bucket[Key(c, key)]
       IN  /\ IF ok /\ obj # Undefined /\ S3Expired(The(obj))
              THEN pending' = pending \cup {Key(c, key)}
              ELSE UNCHANGED pending
           /\ IF S3GetResult(c, key, ok) # Undefined /\ ~body
              THEN last' = Done("get rejected", Key(c, key), Some("bodyError"))
              ELSE last' = Done("get", Key(c, key), S3GetResult(c, key, ok))
    /\ UNCHANGED <<backend, sessVars, objVars, utilVars, options, now, memVars, kvVars, bucket, calls, written, plain>>

\* set(key, value, ttl, jitter): a rejected PutObject is logged.
S3Set(c, key, value, ttlArg, jitterArg, n, ok) ==
    /\ LET ttl == TtlArg(ttlArg)
           mode == CreateJitter(JitterArg(jitterArg))
           obj == [body |-> value, expiresAt |-> Metadata(S3ExpiresAt(ttl, mode, n))]
       IN  /\ (ttl = Undefined \/ mode = "none") => n = 0
           /\ bucket' = IF ok THEN [bucket EXCEPT ![Key(c, key)] = Some(obj)] ELSE bucket
           /\ written' = [written EXCEPT ![Key(c, key)] = Written(value, ttl, mode, n, ok)]
    /\ last' = Done("set", Key(c, key), Some(value))
    /\ UNCHANGED <<backend, sessVars, objVars, utilVars, options, now, memVars, kvVars, pending, calls, plain>>

\* delete(key): a rejected DeleteObject rejects the call.
S3Delete(c, key, ok) ==
    /\ bucket' = IF ok THEN [bucket EXCEPT ![Key(c, key)] = Undefined] ELSE bucket
    /\ written' = IF ok THEN Forget(written, {Key(c, key)}) ELSE written
    /\ last' = Done("delete", Key(c, key), Some(ok))
    /\ UNCHANGED <<backend, sessVars, objVars, utilVars, options, now, memVars, kvVars, pending, calls, plain>>

\* A promise of delete() nobody handles: its rejection is reported by the
\* runtime as an unhandled rejection.
Unhandled(ok) == IF ok THEN "fulfilled" ELSE "unhandledRejection"

\* `this.delete(key).catch((err) => { logger.error(...) })`: what becomes of
\* the promise of the delete that get() does not await.
CatchAndLog(ok) == IF ok THEN "fulfilled" ELSE "logged"

\* The DeleteObject sent by get() for an expired object reaches the bucket,
\* or is rejected and logged.
S3DeleteSettles(k, ok) ==
    /\ k \in pending
    /\ pending' = pending \ {k}
    /\ bucket' = IF ok THEN [bucket EXCEPT ![k] = Undefined] ELSE bucket
    /\ written' = IF ok THEN Sweep(written, k) ELSE written
    /\ last' = Done("deleted", k, Some(CatchAndLog(ok)))
    /\ UNCHANGED <<backend, sessVars, objVars, utilVars, options, now, memVars, kvVars, calls, plain>>

\* The keys keys(prefix) yields: ListObjectsV2 with Prefix, each Key sliced.
S3KeysOf(b, c, prefix) ==
    {Substring(k, Len(PrefixOrEmpty(c))) :
        k \in {x \in DOMAIN b : b[x] # Undefined /\ StartsWith(x, Key(c, OrEmpty(prefix)))}}

\* keys(prefix), iterated to its end.
S3Keys(c, prefix) ==
    /\ last' = Done("keys", Key(c, OrEmpty(prefix)), S3KeysOf(bucket, c, prefix))
    /\ UNCHANGED <<backend, sessVars, objVars, utilVars, options, now, memVars, kvVars, s3Vars, calls, written, plain>>

----------------------------------------------------------------------------
(* The program that uses S3Cache: the instance "base" without keyPrefix    *)
(* and the instance "foo" with keyPrefix 'f:' on the same bucket.          *)

S3Caches == {"base", "foo"}

\* The bodies the program stores: two under the key 'k' of "base", one
\* elsewhere.
S3Values(c, key) == IF c = "base" /\ key = <<"k">> THEN Values ELSE {"v1"}

\* S3Cache.init(s3Options, options)
S3Init ==
    /\ Start("s3")
    /\ options \in [defaultTTL : {Undefined}, defaultJitter : {Undefined}]

S3Next ==
    \/ \E c \in S3Caches : \E key \in CallKeys(c) : \E ok \in BOOLEAN, body \in BOOLEAN : S3Get(c, key, ok, body)
    \/ \E c \in S3Caches : \E key \in CallKeys(c) : \E v \in S3Values(c, key), ttl \in TtlArgs(c, key) :
          \E j \in JitterArgs(ttl), n \in Rand, ok \in BOOLEAN : S3Set(c, key, v, ttl, j, n, ok)
    \/ \E c \in S3Caches : \E key \in CallKeys(c) : \E ok \in BOOLEAN : S3Delete(c, key, ok)
    \/ \E k \in FullKeys, ok \in BOOLEAN : S3DeleteSettles(k, ok)
    \/ \E c \in S3Caches : \E prefix \in PrefixArgs(c) : S3Keys(c, prefix)
    \/ \E t \in TimePoints : Tick(t)

S3Spec == S3Init /\ [][S3Next]_vars

----------------------------------------------------------------------------
(* BaseCache.remember, on the Map-backed InMemoryCache.  A call is at      *)
(* "get" while it awaits this.get(key), at "callback" while it awaits      *)
(* callback(), at "set" while it awaits this.set(...), and "done" once its *)
(* promise has settled.  Each call record counts the invocations of its    *)
(* callback and notes whether the call has written.                        *)

\* remember(key, callback, ttl): the call starts with this.get(key).
Remember(p, c, key, ttl) ==
    /\ calls[p].pc \in {"idle", "done"}
    /\ MemGetBody(c, key)
    /\ calls' = [calls EXCEPT ![p] = [NoCall EXCEPT !.pc = "get", !.cache = c, !.key = key,
                                          !.ttl = ttl, !.cached = MemGetResult(c, key)]]
    /\ last' = Done("remember", Key(c, key), Undefined)
    /\ UNCHANGED <<backend, sessVars, objVars, utilVars, options, now, kvVars, s3Vars, written, plain>>

\* A remember that invokes callback() whatever get() returned.
RememberGotAlways(p) ==
    /\ calls[p].pc = "get"
    /\ calls' = [calls EXCEPT ![p] =
                    [calls[p] EXCEPT !.pc = "callback", !.invoked = calls[p].invoked + 1]]
    /\ last' = Done("got", Key(calls[p].cache, calls[p].key), calls[p].cached)
    /\ UNCHANGED <<backend, sessVars, objVars, utilVars, options, now, memVars, kvVars, s3Vars, written, plain>>

\* `if (typeof cached !== 'undefined') return cached;` and, otherwise, the
\* invocation of callback().
RememberGot(p) ==
    /\ calls[p].pc = "get"
    /\ calls' = [calls EXCEPT ![p] =
                    IF calls[p].cached # Undefined
                    THEN [calls[p] EXCEPT !.pc = "done", !.result = Some(Fulfilled(calls[p].cached))]
                    ELSE [calls[p] EXCEPT !.pc = "callback", !.invoked = calls[p].invoked + 1]]
    /\ last' = Done("got", Key(calls[p].cache, calls[p].key), calls[p].cached)
    /\ UNCHANGED <<backend, sessVars, objVars, utilVars, options, now, memVars, kvVars, s3Vars, written, plain>>

\* A remember that catches the rejection of callback() and returns undefined.
CallbackSettlesCaught(p, outcome) ==
    /\ calls[p].pc = "callback"
    /\ IF outcome.status = "fulfilled" /\ outcome.value # Undefined
       THEN /\ Len(immediates) < PendingCap
            /\ MemSetBody(calls[p].cache, calls[p].key, The(outcome.value), calls[p].ttl,
                          Undefined, 0)
            /\ calls' = [calls EXCEPT ![p] = [calls[p] EXCEPT !.pc = "set", !.wrote = TRUE,
                                                  !.outcome = Some(outcome)]]
       ELSE /\ calls' = [calls EXCEPT ![p] = [calls[p] EXCEPT !.pc = "done",
                                                  !.outcome = Some(outcome),
                                                  !.result = Some(Fulfilled(Undefined))]]
            /\ UNCHANGED <<memVars, written, plain>>
    /\ last' = Done("settled", Key(calls[p].cache, calls[p].key), outcome.value)
    /\ UNCHANGED <<backend, sessVars, objVars, utilVars, options, now, kvVars, s3Vars>>

\* The promise of callback() settles: a present value is given to this.set,
\* undefined is returned, a rejection rejects the call.
CallbackSettles(p, outcome) ==
    /\ calls[p].pc = "callback"
    /\ IF outcome.status = "fulfilled" /\ outcome.value # Undefined
       THEN /\ Len(immediates) < PendingCap
            /\ MemSetBody(calls[p].cache, calls[p].key, The(outcome.value), calls[p].ttl,
                          Undefined, 0)
            /\ calls' = [calls EXCEPT ![p] = [calls[p] EXCEPT !.pc = "set", !.wrote = TRUE,
                                                  !.outcome = Some(outcome)]]
       ELSE /\ calls' = [calls EXCEPT ![p] = [calls[p] EXCEPT !.pc = "done",
                                                  !.outcome = Some(outcome),
                                                  !.result = Some(outcome)]]
            /\ UNCHANGED <<memVars, written, plain>>
    /\ last' = Done("settled", Key(calls[p].cache, calls[p].key), outcome.value)
    /\ UNCHANGED <<backend, sessVars, objVars, utilVars, options, now, kvVars, s3Vars>>

\* `return value;` once this.set has completed.
RememberReturn(p) ==
    /\ calls[p].pc = "set"
    /\ calls' = [calls EXCEPT ![p] = [calls[p] EXCEPT !.pc = "done",
                                          !.result = calls[p].outcome]]
    /\ last' = Done("returned", Key(calls[p].cache, calls[p].key), The(calls[p].outcome).value)
    /\ UNCHANGED <<backend, sessVars, objVars, utilVars, options, now, memVars, kvVars, s3Vars, written, plain>>

----------------------------------------------------------------------------
(* The program that calls remember() for the key 'k' of the root           *)
(* Map-backed cache, next to direct writes and deletions.                  *)

\* What the callbacks of the program settle with.
Outcomes == {Fulfilled(Some("v2")), Fulfilled(Undefined), Rejected("err")}

\* The instant the clock of this program moves to, after every expiry.
RemTimePoints == {t \in TimePoints : \A u \in TimePoints : u <= t}

\* The ttl arguments of the program.
RemTtlArgs == {Undefined} \cup {Some(t) : t \in TTLs}

RemInit ==
    /\ Start("memory")
    /\ options \in [maxItems : {Undefined}, defaultTTL : {Undefined}, defaultJitter : {Undefined}]

RemNext ==
    \/ \E p \in Callers, ttl \in RemTtlArgs : Remember(p, "base", <<"k">>, ttl)
    \/ \E p \in Callers : RememberGot(p)
    \/ \E p \in Callers, outcome \in Outcomes : CallbackSettles(p, outcome)
    \/ \E p \in Callers : RememberReturn(p)
    \/ \E key \in CallKeys("base") : \E ttl \in TtlArgs("base", key) :
          MemSet("base", key, "v1", ttl, Undefined, 0)
    \/ \E key \in CallKeys("base") : MemDelete("base", key)
    \/ \E rs \in [1 .. BatchSize -> Rand] : RunImmediate(rs)
    \/ \E t \in RemTimePoints : Tick(t)

RemSpec == RemInit /\ [][RemNext]_vars

----------------------------------------------------------------------------
(* The properties.                                                         *)

\* What get(k) of the root cache returns in the current state, the backend
\* answering.
GetResult(k) ==
    CASE backend = "memory" -> MemGetResult("base", k)
      [] backend = "kv"     -> KvGetResult("base", k)
      [] backend = "s3"     -> S3GetResult("base", k, TRUE)

\* The instant the ttl of the write w elapses, without jitter.
Elapses(w) == w.at + The(w.ttl) * 1000

\* C1: after set(k, v) has completed (the backend having accepted the write)
\* and before any ttl has elapsed, with no later operation on k, get(k)
\* returns v.
C1_RoundTrip ==
    \A k \in FullKeys :
        written[k] # Undefined =>
            LET w == The(written[k])
            IN  (/\ w.ok
                 /\ ~w.swept
                 /\ (w.ttl = Undefined \/ (w.mode = "none" /\ now < Elapses(w))))
                    => GetResult(k) = Some(w.value)

C3_Expiry ==
    \A k \in FullKeys :
        (written[k] # Undefined /\ bucket[k] # Undefined) =>
            LET w == The(written[k])
            IN  (w.ok /\ ~w.swept /\ w.ttl # Undefined) =>
                    /\ The(bucket[k]).expiresAt =
                          Some(w.at + Round(JitterNum(w.mode, w.n, The(w.ttl)) * 1000))
                    /\ (w.mode = "none" /\ now < Elapses(w))
                          => S3GetResult("base", k, TRUE) = Some(w.value)

\* C4: keys(prefix) yields exactly the keys of the namespace that start with
\* prefix and whose entry has not expired.
C4_KeysLive ==
    \A c \in MemCaches : \A prefix \in PrefixArgs(c) :
        MemKeysOf(inner, c, prefix) =
            {The(StripPrefix(c, inner[i].key)) : i \in
                {j \in 1 .. Len(inner) :
                    /\ StripPrefix(c, inner[j].key) # Undefined
                    /\ StartsWith(The(StripPrefix(c, inner[j].key)), OrEmpty(prefix))
                    /\ IsValid(inner[j], now)}}

\* C5: with maxItems = 1, once two distinct keys have been inserted with set
\* (no ttl) and every housekeeping callback has run, exactly one entry is
\* left.
C5_OneRemains ==
    (/\ options.maxItems = Some(1)
     /\ plain
     /\ Cardinality({k \in FullKeys : written[k] # Undefined}) = 2
     /\ immediates = <<>>)
        => Len(inner) = 1

\* The children of the root cache of the kv.js program.
KvChildren == KvCaches \ {"base"}

\* C6: for a child c of prefix p, a step that completes set(k, v) through c makes c.get(k) and
\* parent.get(p + k) return v and leaves parent.get(k) and the siblings'
\* get(k) as they were; a set(p + k, v) through the parent does the same; and
\* a parent.clearPattern whose pattern matches p + k makes c.get(k) absent.
C6_ChildIsolation ==
    [][\A c \in KvChildren : \A k \in KvCallKeys(c) :
          /\ \A v \in Values, ttl \in KvTtlArgs :
                (/\ last'.op = "set"
                 /\ \/ KvSet(c, k, v, ttl, Undefined, 0)
                    \/ KvSet("base", Key(c, k), v, ttl, Undefined, 0))
                    => /\ KvGetResult(c, k)' = Some(v)
                       /\ KvGetResult("base", Key(c, k))' = Some(v)
                       /\ KvGetResult("base", k)' = KvGetResult("base", k)
                       /\ \A d \in KvChildren \ {c} : KvGetResult(d, k)' = KvGetResult(d, k)
          /\ \A pattern \in Patterns("base") :
                (/\ last'.op = "clearPattern"
                 /\ KvClearPattern("base", pattern)
                 /\ Glob(pattern, Key(c, k)))
                    => KvGetResult(c, k)' = Undefined
      ]_vars

\* The parent has just run clearPattern('*:k'), which deleted the entry the
\* child "foo" held under 'k'.
C6_Witness ==
    /\ last.op = "clearPattern"
    /\ last.key = <<"*", ":", "k">>
    /\ <<"f", ":", "k">> \in last.result
    /\ KvGetResult("foo", <<"k">>) = Undefined
    /\ KvGetResult("base", <<"k">>) # Undefined

\* C7: a set, delete, clear or clearPattern through a cache of key prefix p
\* changes only store entries whose full key starts with p.
C7_Frame ==
    [][\A c \in KvCaches :
          (/\ last'.op \in {"set", "delete", "clear", "clearPattern"}
           /\ \/ \E key \in KvCallKeys(c), v \in Values, ttl \in KvTtlArgs :
                    KvSet(c, key, v, ttl, Undefined, 0)
              \/ \E key \in KvCallKeys(c) : KvDelete(c, key)
              \/ \E prefix \in PrefixArgs(c) : KvClear(c, prefix)
              \/ \E pattern \in Patterns(c) : KvClearPattern(c, pattern))
              => \A k \in FullKeys : ~StartsWith(k, PrefixOrEmpty(c)) => store'[k] = store[k]
      ]_vars

\* C8: delete(k) of a key that is not in the Map completes and leaves the Map,
\* every entry inside and outside the namespace, and the queued batches as
\* they were; so does the same delete repeated.
C8_DeleteAbsent ==
    [][\A c \in MemCaches : \A key \in CallKeys(c) :
          (MemDelete(c, key) /\ MapGet(inner, Key(c, key)) = Undefined)
              => (inner' = inner /\ immediates' = immediates /\ last'.op = "delete")
      ]_vars

\* A delete has just completed for a key that was not in the Map, other
\* entries being there.
C8_Witness ==
    /\ last.op = "delete"
    /\ last.result = Some(FALSE)
    /\ inner # <<>>

\* C9: a call of remember(k, factory) whose get(k) found a present,
\* non-expired value returns that value, has not invoked factory, has not
\* written, and none of its steps changes the Map or queues a batch.
C9_RememberHit ==
    [][\A p \in Callers :
          /\ (calls'[p].pc = "done" /\ calls'[p].cached # Undefined)
                => /\ calls'[p].result = Some(Fulfilled(calls'[p].cached))
                   /\ calls'[p].invoked = 0
                   /\ ~calls'[p].wrote
          /\ (calls'[p] # calls[p] /\ calls'[p].cached # Undefined)
                => (inner' = inner /\ immediates' = immediates)
      ]_vars

\* A call of remember has returned the value it found in the cache.
C9_Witness ==
    \E p \in Callers :
        /\ calls[p].pc = "done"
        /\ calls[p].cached = Some("v1")
        /\ calls[p].result = Some(Fulfilled(Some("v1")))

\* C10: a call of remember(k, factory, ttl) whose get(k) found nothing invokes
\* factory exactly once and settles as factory did; it writes if and only if
\* factory resolved to a present value, which is then stored under k with the
\* ttl before the call returns; when factory resolves to absent or rejects,
\* the steps of the call leave the Map as it was.
C10_RememberMiss ==
    [][\A p \in Callers :
          /\ (calls'[p].pc = "done" /\ calls'[p].cached = Undefined)
                => /\ calls'[p].invoked = 1
                   /\ calls'[p].result = calls'[p].outcome
                   /\ calls'[p].wrote <=>
                         (/\ The(calls'[p].outcome).status = "fulfilled"
                          /\ The(calls'[p].outcome).value # Undefined)
          /\ (calls[p].pc = "callback" /\ calls'[p].pc = "set")
                => MapGet(inner', Key(calls[p].cache, calls[p].key)) =
                      Some([key |-> Key(calls[p].cache, calls[p].key),
                            value |-> The(The(calls'[p].outcome).value),
                            expire |-> IF calls[p].ttl = Undefined THEN Undefined
                                       ELSE Some(now + The(calls[p].ttl) * 1000)])
          /\ (/\ calls'[p] # calls[p]
              /\ calls[p].pc \in {"get", "callback", "set"}
              /\ calls'[p].pc \in {"callback", "done"})
                => inner' = inner
      ]_vars

\* A call of remember that found nothing has stored and returned the value of
\* its factory, and another has rejected with the reason of its factory.
C10_Witness ==
    \E p, q \in Callers :
        /\ calls[p].pc = "done"
        /\ calls[p].cached = Undefined
        /\ calls[p].wrote
        /\ calls[p].result = Some(Fulfilled(Some("v2")))
        /\ calls[q].pc = "done"
        /\ calls[q].cached = Undefined
        /\ calls[q].result = Some(Rejected("err"))

----------------------------------------------------------------------------
(* Session (server/session.ts).  Session.with runs #init up to its first   *)
(* await and invokes the callback with the promise of the session; the     *)
(* callback awaits the session and uses it; the finally block awaits the   *)
(* session and calls #persist without awaiting it.                         *)

cacheVars == <<backend, options, now, memVars, kvVars, s3Vars, calls, written, plain, last>>

\* The objects something still refers to.
Referenced ==
    UNION {storage[i] : i \in SessIds}
        \cup UNION {flows[f].got : f \in Flows}
        \cup {The(flows[f].sess).data : f \in {g \in Flows : flows[g].sess # Undefined}}

\* A new object: the first one nothing refers to (0 when the heap is full).
Alloc ==
    IF Objs \ Referenced = {} THEN 0
    ELSE CHOOSE o \in Objs \ Referenced : \A p \in Objs \ Referenced : o <= p

\* storage.entries(): the data bag stored under each id.
Entries ==
    [i \in SessIds |-> IF storage[i] = Undefined THEN Undefined ELSE Some(heap[The(storage[i])])]

\* An id generator that may return an id already in use.
AnyIds == SessIds

\* secureId(): 32 random bytes in hex, an id nobody holds yet.
SecureIds ==
    NewIds \ ({i \in SessIds : storage[i] # Undefined}
                \cup UNION {cookies[f] : f \in Flows}
                \cup {The(flows[f].sess).id : f \in {g \in Flows : flows[g].sess # Undefined}})

\* The error of #init without its cause.
ErrorWithoutCause(err) == [message |-> "Could not initialize session", cause |-> "none"]

\* new Error('Could not initialize session', { cause: err })
InitError(err) == [message |-> "Could not initialize session", cause |-> err]

\* #newEmptySession() and cookies.set(name, newSession.id, cookieSettings):
\* #init of the call fl resolves with a new session.
NewEmptySession(f, fl) ==
    \E id \in SecureIds :
        /\ Alloc # 0
        /\ heap' = [heap EXCEPT ![Alloc] = EmptyBag]
        /\ cookies' = [cookies EXCEPT ![f] = Some(id)]
        /\ flows' = [flows EXCEPT ![f] =
              [fl EXCEPT !.init = "resolved",
                         !.sess = Some([id |-> id, data |-> Alloc, dirty |-> TRUE, isNew |-> TRUE]),
                         !.cookieSets = @ + 1]]

\* Session.with(cookies, cookieSettings, storage, callback): #init runs to
\* its first await (storage.get is called, and may throw), then the
\* callback is invoked with the promise of the session.
With(f, throws) ==
    /\ flows[f].pc = "idle"
    /\ LET sessId == cookies[f]
           called == [flows[f] EXCEPT !.pc = "running", !.cb = "pending", !.invoked = @ + 1]
           read == [called EXCEPT !.sid = sessId, !.gets = @ + 1]
       IN  IF sessId = Undefined \/ sessId = Some("")
           THEN /\ ~throws
                /\ NewEmptySession(f, called)
           ELSE /\ flows' = [flows EXCEPT ![f] =
                      IF throws
                      THEN [read EXCEPT !.init = "rejected", !.cause = Some("getErr")]
                      ELSE [read EXCEPT !.init = "pending",
                                        !.got = IF storageKind = "object"
                                                THEN storage[The(sessId)] ELSE Undefined]]
                /\ UNCHANGED <<heap, cookies>>
    /\ UNCHANGED <<storageKind, storage, cacheVars, objVars, utilVars>>

\* The entry the storage.get of the call f resolves with.
Loaded(f) == IF storageKind = "object" THEN flows[f].got ELSE storage[The(flows[f].sid)]

\* A restore that marks the session as new and dirty.
RestoreAsNew(fl, sessId, o) ==
    [fl EXCEPT !.init = "resolved",
               !.sess = Some([id |-> sessId, data |-> o, dirty |-> TRUE, isNew |-> TRUE])]

\* return new this(sessId, data): #init of the call fl resolves with the
\* session of the cookie, holding the object storage.get resolved with.
Restore(fl, sessId, o) ==
    [fl EXCEPT !.init = "resolved",
               !.sess = Some([id |-> sessId, data |-> o, dirty |-> FALSE, isNew |-> FALSE])]

\* The promise of storage.get settles and #init continues after its await.
GetSettles(f, ok) ==
    /\ flows[f].init = "pending"
    /\ LET fl == [flows[f] EXCEPT !.got = Undefined]
           sessId == The(fl.sid)
           data == Loaded(f)
           restored(o) == Restore(fl, sessId, o)
       IN  IF ~ok
           THEN /\ flows' = [flows EXCEPT ![f] = [fl EXCEPT !.init = "rejected", !.cause = Some("getErr")]]
                /\ UNCHANGED <<heap, cookies>>
           ELSE IF data = Undefined
           THEN NewEmptySession(f, fl)
           ELSE IF storageKind = "object"
           THEN /\ flows' = [flows EXCEPT ![f] = restored(The(data))]
                /\ UNCHANGED <<heap, cookies>>
           ELSE /\ Alloc # 0
                /\ heap' = [heap EXCEPT ![Alloc] = heap[The(data)]]
                /\ flows' = [flows EXCEPT ![f] = restored(Alloc)]
                /\ UNCHANGED cookies
    /\ UNCHANGED <<storageKind, storage, cacheVars, objVars, utilVars>>

\* The operations of a session that change it.
SessionOps == {"write", "delete", "consume", "clear"}

\* The callback, having awaited the session, calls write(key, value),
\* delete(key), consume(key) or clear().
SessionOp(f, op, key, value) ==
    /\ flows[f].pc = "running"
    /\ flows[f].cb = "pending"
    /\ flows[f].init = "resolved"
    /\ LET s == The(flows[f].sess)
           data == IF op = "clear" THEN Alloc ELSE s.data
       IN  /\ data # 0
           /\ heap' = CASE op = "write" -> [heap EXCEPT ![data][key] = Some(value)]
                        [] op \in {"delete", "consume"} -> [heap EXCEPT ![data][key] = Undefined]
                        [] op = "clear" -> [heap EXCEPT ![data] = EmptyBag]
           /\ flows' = [flows EXCEPT ![f].sess = Some([s EXCEPT !.data = data, !.dirty = TRUE])]
    /\ UNCHANGED <<storageKind, storage, cookies, cacheVars, objVars, utilVars>>

\* The callback returns or throws, or the promise it returned settles.
CallbackReturns(f, ok) ==
    /\ flows[f].pc = "running"
    /\ flows[f].cb = "pending"
    /\ flows' = [flows EXCEPT ![f].cb = IF ok THEN "fulfilled" ELSE "rejected"]
    /\ UNCHANGED <<storageKind, heap, storage, cookies, cacheVars, objVars, utilVars>>

\* A #persist that writes nothing.
PersistNever(s) == TRUE

\* A #persist that writes every session, dirty or not.
PersistAlways(s) == FALSE

\* #persist: if (!session.#dirty) return;
PersistSkips(s) == ~s.dirty

\* #persist: catch (err) { logger?.error(...); return; }
PersistCaught(fl) == [fl EXCEPT !.persist = "failed"]

\* The ways a call of storage.set can go, by kind of storage: it throws, or
\* returns a promise that resolves ("ok") or rejects ("fails").
SetModes(kind) == IF kind = "object" THEN {"throws", "ok"} ELSE {"throws", "ok", "fails"}

\* The finally block of Session.with, once the callback has settled and the
\* session promise too: a rejected session promise is thrown; otherwise
\* #persist runs to its first await (storage.set is called if the session
\* is dirty) and, not being awaited, Session.with settles as the callback.
WithFinally(f, mode) ==
    /\ mode \in SetModes(storageKind)
    /\ flows[f].pc = "running"
    /\ flows[f].cb \in {"fulfilled", "rejected"}
    /\ flows[f].init \in {"resolved", "rejected"}
    /\ LET fl == flows[f]
           outcome == IF fl.cb = "fulfilled" THEN Fulfilled(Some("r")) ELSE Rejected("cbErr")
           done == [fl EXCEPT !.pc = "done", !.result = Some(outcome)]
           set == [done EXCEPT !.sets = @ + 1]
       IN  IF fl.init = "rejected"
           THEN /\ mode = "ok"
                /\ flows' = [flows EXCEPT ![f] =
                      [fl EXCEPT !.pc = "done", !.result = Some(Rejected(InitError(The(fl.cause))))]]
                /\ UNCHANGED storage
           ELSE IF PersistSkips(The(fl.sess))
           THEN /\ mode = "ok"
                /\ flows' = [flows EXCEPT ![f] = [done EXCEPT !.persist = "skipped"]]
                /\ UNCHANGED storage
           ELSE IF mode = "throws"
           THEN /\ flows' = [flows EXCEPT ![f] = PersistCaught(set)]
                /\ UNCHANGED storage
           ELSE IF storageKind = "object"
           THEN /\ flows' = [flows EXCEPT ![f] = [set EXCEPT !.persist = "pending", !.will = TRUE]]
                /\ storage' = [storage EXCEPT ![The(fl.sess).id] = Some(The(fl.sess).data)]
           ELSE /\ flows' = [flows EXCEPT ![f] =
                      [set EXCEPT !.persist = "pending", !.will = (mode = "ok"),
                                  !.arg = Some(heap[The(fl.sess).data])]]
                /\ UNCHANGED storage
    /\ UNCHANGED <<storageKind, heap, cookies, cacheVars, objVars, utilVars>>

\* A storage.set that keeps the keys the new data bag does not have.
StorageSetMerged(old, bag) ==
    IF old = Undefined THEN bag
    ELSE [k \in SessKeys |-> IF bag[k] # Undefined THEN bag[k] ELSE The(old)[k]]

\* storage.set(session.id, session.#data): the entry the storage holds
\* afterwards, old being the entry it held, is the data bag it was given.
StorageSet(old, bag) == bag

\* The promise of storage.set settles and #persist continues after its
\* await: the session is clean, or the rejection is caught.
SetSettles(f) ==
    /\ flows[f].persist = "pending"
    /\ LET fl == [flows[f] EXCEPT !.arg = Undefined]
           s == The(fl.sess)
           target == IF storage[s.id] # Undefined THEN The(storage[s.id]) ELSE Alloc
       IN  IF ~fl.will
           THEN /\ flows' = [flows EXCEPT ![f] = PersistCaught(fl)]
                /\ UNCHANGED <<heap, storage>>
           ELSE /\ flows' = [flows EXCEPT ![f] =
                      [fl EXCEPT !.persist = "resolved",
                                 !.sess = Some([s EXCEPT !.dirty = FALSE, !.isNew = FALSE])]]
                /\ IF storageKind = "object"
                   THEN UNCHANGED <<heap, storage>>
                   ELSE /\ target # 0
                        /\ heap' = [heap EXCEPT ![target] = StorageSet(Entries[s.id], The(flows[f].arg))]
                        /\ storage' = [storage EXCEPT ![s.id] = Some(target)]
    /\ UNCHANGED <<storageKind, cookies, cacheVars, objVars, utilVars>>

----------------------------------------------------------------------------
(* The program in which two requests are served through Session.with over  *)
(* a storage that holds the session 's1': "r1" arrives with any cookie,    *)
(* "r2" with the cookie of 's1'.                                           *)

SessInit ==
    /\ CacheStart("session")
    /\ NoUtils
    /\ NoObject
    /\ options \in [defaultTTL : {Undefined}, defaultJitter : {Undefined}]
    /\ storageKind \in StorageKinds
    /\ heap = [o \in Objs |-> IF o = 1 THEN [k \in SessKeys |-> Some("x")] ELSE EmptyBag]
    /\ storage = [i \in SessIds |-> IF i = "s1" THEN Some(1) ELSE Undefined]
    /\ cookies \in {c \in [Flows -> CookieArgs] : c["r2"] = Some("s1")}
    /\ flows = [f \in Flows |-> NoFlow]

SessNext ==
    \/ \E f \in Flows : \E throws \in BOOLEAN : With(f, throws)
    \/ \E f \in Flows : \E ok \in BOOLEAN : GetSettles(f, ok)
    \/ \E f \in Flows : \E key \in SessKeys, value \in SessValues : SessionOp(f, "write", key, value)
    \/ \E f \in Flows : \E op \in SessionOps \ {"write"} : \E key \in SessKeys : SessionOp(f, op, key, "x")
    \/ \E f \in Flows : \E ok \in BOOLEAN : CallbackReturns(f, ok)
    \/ \E f \in Flows : \E mode \in SetModes("copy") : WithFinally(f, mode)
    \/ \E f \in Flows : SetSettles(f)

SessSpec == SessInit /\ [][SessNext]_vars

----------------------------------------------------------------------------
(* Properties of Session.with.                                             *)

\* The step in which #init of the call f resolves.
InitResolves(f) == flows[f].init # "resolved" /\ flows'[f].init = "resolved"

\* C14: when #init resolves for a request without session cookie (none, or
\* the empty string) or with a cookie whose id has no entry in the storage,
\* the session has an id that nothing held before (not the cookie, no entry
\* of the storage, no other session), empty data, dirty = true and isNew =
\* true, and the cookie of the request is set, once, to that id; a call
\* that found no cookie never calls storage.get.
C14_NewSession ==
    [][\A f \in Flows :
          LET c == cookies[f]
              absent == c = Undefined \/ c = Some("")
              s == The(flows'[f].sess)
          IN  /\ (InitResolves(f) /\ (absent \/ storage[The(c)] = Undefined)) =>
                    /\ s.id \notin UNION {cookies[g] : g \in Flows}
                    /\ storage[s.id] = Undefined
                    /\ \A g \in Flows \ {f} : flows[g].sess # Undefined => The(flows[g].sess).id # s.id
                    /\ heap'[s.data] = EmptyBag
                    /\ s.dirty /\ s.isNew
                    /\ cookies'[f] = Some(s.id)
                    /\ flows'[f].cookieSets = 1
                    /\ absent => flows'[f].gets = 0
              /\ flows'[f].sid = Undefined => flows'[f].gets = 0
      ]_vars

\* The request "r1" came with the cookie 's0', which the storage does not
\* know: storage.get was called once and the session is new, under a
\* generated id the cookie now carries.
C14_Witness ==
    /\ flows["r1"].sid = Some("s0")
    /\ flows["r1"].init = "resolved"
    /\ flows["r1"].gets = 1
    /\ The(flows["r1"].sess).isNew
    /\ The(flows["r1"].sess).id \in NewIds
    /\ cookies["r1"] = Some(The(flows["r1"].sess).id)

\* C15: when #init resolves for a request whose cookie carries an id under
\* which storage.get found an entry, the session has the id of the cookie,
\* its data hold the stored value of every key, dirty = false and isNew =
\* false, and the cookie has not been written.
C15_Restored ==
    [][\A f \in Flows :
          (InitResolves(f) /\ flows[f].init = "pending" /\ Loaded(f) # Undefined) =>
              LET s == The(flows'[f].sess)
              IN  /\ Some(s.id) = cookies[f]
                  /\ \A k \in SessKeys : heap'[s.data][k] = heap[The(Loaded(f))][k]
                  /\ ~s.dirty /\ ~s.isNew
                  /\ cookies'[f] = cookies[f]
                  /\ flows'[f].cookieSets = 0
      ]_vars

\* The request "r1" came with the cookie 's1' and has its session restored
\* with the stored value of 'a'.
C15_Witness ==
    /\ flows["r1"].sid = Some("s1")
    /\ flows["r1"].init = "resolved"
    /\ flows["r1"].cb = "pending"
    /\ cookies["r1"] = Some("s1")
    /\ The(flows["r1"].sess) = [id |-> "s1", data |-> The(flows["r1"].sess).data, dirty |-> FALSE, isNew |-> FALSE]
    /\ heap[The(flows["r1"].sess).data]["a"] = Some("x")

\* The step in which the promise of Session.with of the call f settles.
WithSettles(f) == flows[f].pc = "running" /\ flows'[f].pc = "done"

\* C16: a call of Session.with invokes storage.set at most once, and only
\* once the callback has settled and for a session that is dirty then; when
\* the session is not dirty at that point storage.set is not invoked, the
\* storage holds after the step what it held before, and the call does
\* nothing afterwards.
C16_SetOnce ==
    [][\A f \in Flows :
          /\ flows'[f].sets <= 1
          /\ flows'[f].sets # flows[f].sets =>
                /\ flows[f].cb \in {"fulfilled", "rejected"}
                /\ The(flows[f].sess).dirty
          /\ (WithSettles(f) /\ flows[f].init = "resolved" /\ ~The(flows[f].sess).dirty) =>
                /\ flows'[f].sets = 0
                /\ flows'[f].persist = "skipped"
                /\ Entries' = Entries
          /\ flows[f].persist = "skipped" => flows'[f] = flows[f]
      ]_vars

\* The request "r1" had its session restored and left it untouched, so its
\* call settled without a storage.set; the request "r2" changed its session
\* and its call invoked storage.set once.
C16_Witness ==
    /\ flows["r1"].pc = "done"
    /\ flows["r1"].persist = "skipped"
    /\ flows["r1"].sets = 0
    /\ ~The(flows["r1"].sess).isNew
    /\ flows["r2"].pc = "done"
    /\ flows["r2"].sets = 1

\* C17: once storage.get has thrown or rejected in #init, storage.set is
\* never invoked and the cookie is never written, so it keeps the value the
\* request came with; and when Session.with settles it rejects with the
\* error 'Could not initialize session' whose cause is the error of
\* storage.get, whatever the callback did.
C17_InitFails ==
    \A f \in Flows :
        flows[f].init = "rejected" =>
            /\ flows[f].sets = 0
            /\ flows[f].persist = "none"
            /\ flows[f].cookieSets = 0
            /\ cookies[f] = flows[f].sid
            /\ flows[f].pc = "done" =>
                  flows[f].result = Some(Rejected([message |-> "Could not initialize session",
                                                   cause |-> "getErr"]))

\* storage.get rejected for the request "r1", whose callback nevertheless
\* returned normally; Session.with has rejected and the cookie is still
\* 's1'.
C17_Witness ==
    /\ flows["r1"].init = "rejected"
    /\ flows["r1"].cb = "fulfilled"
    /\ flows["r1"].pc = "done"
    /\ The(flows["r1"].result).status = "rejected"
    /\ cookies["r1"] = Some("s1")

\* C18: a call of Session.with whose #init has failed has not invoked the
\* callback.
C18_NoCallback ==
    \A f \in Flows : flows[f].init = "rejected" => flows[f].invoked = 0

\* C19: when the storage.set of #persist has thrown or rejected, Session.with
\* has settled as the callback did (resolved with its result when it
\* returned one), no promise was rejected without a handler, storage.set
\* was invoked once, and the storage holds under the id of the session what
\* it held when the call began, not the data of this request.
C19_SetFails ==
    \A f \in Flows :
        flows[f].persist = "failed" =>
            LET s == The(flows[f].sess)
            IN  /\ flows[f].pc = "done"
                /\ flows[f].result =
                      Some(IF flows[f].cb = "fulfilled" THEN Fulfilled(Some("r")) ELSE Rejected("cbErr"))
                /\ ~flows[f].unhandled
                /\ flows[f].sets = 1
                /\ \A g \in Flows \ {f} : flows[g].pc = "idle" =>
                      Entries[s.id] = IF s.id = "s1" THEN Some([k \in SessKeys |-> Some("x")])
                                      ELSE Undefined

\* C20: when Session.with resolves after invoking a storage.set that
\* succeeds, the storage holds the data of the session under its id.
C20_StoredOnResolve ==
    [][\A f \in Flows :
          (/\ WithSettles(f)
           /\ The(flows'[f].result).status = "fulfilled"
           /\ flows'[f].sets = 1
           /\ flows'[f].persist = "pending"
           /\ flows'[f].will) =>
              Entries'[The(flows[f].sess).id] = Some(heap'[The(flows[f].sess).data])
      ]_vars

\* C21: when Session.with settles after a successful #init and a callback
\* that threw or rejected, with the session dirty, storage.set has been
\* invoked exactly once, with the id and the data of the session (a storage
\* that keeps objects holds the object of the session under its id, a
\* storage that copies was handed the data as they are), and Session.with
\* rejects with the error of the callback.
C21_PersistOnFailure ==
    [][\A f \in Flows :
          (/\ WithSettles(f)
           /\ flows[f].init = "resolved"
           /\ flows[f].cb = "rejected"
           /\ The(flows[f].sess).dirty) =>
              LET s == The(flows[f].sess)
              IN  /\ flows[f].sets = 0
                  /\ flows'[f].sets = 1
                  /\ flows'[f].result = Some(Rejected("cbErr"))
                  /\ flows'[f].persist \in {"pending", "failed"}
                  /\ flows'[f].persist = "pending" =>
                        IF storageKind = "object"
                        THEN storage'[s.id] = Some(s.data)
                        ELSE flows'[f].arg = Some(heap[s.data])
      ]_vars

\* The callback of the request "r1" wrote 'y' under 'a' and then rejected:
\* Session.with has rejected with its error, storage.set was invoked once
\* and has resolved, and the storage holds the data of the session.
C21_Witness ==
    /\ flows["r1"].pc = "done"
    /\ flows["r1"].init = "resolved"
    /\ flows["r1"].cb = "rejected"
    /\ flows["r1"].result = Some(Rejected("cbErr"))
    /\ flows["r1"].sets = 1
    /\ flows["r1"].persist = "resolved"
    /\ heap[The(flows["r1"].sess).data]["a"] = Some("y")
    /\ Entries[The(flows["r1"].sess).id] = Some(heap[The(flows["r1"].sess).data])

----------------------------------------------------------------------------
(* A Session object and the user code around it (session.ts 140-242).      *)
(* held[c] tells how user code came by the object c it holds: it made it,  *)
(* got it from read(), or has passed it to write().                        *)

\* The objects reachable from the roots.
Reach(c, roots) ==
    roots \cup UNION {c[r].inner : r \in {x \in roots : c[x] # FreeCell}}

\* The objects the session refers to and the objects user code holds.
Roots(s, h) == UNION {s.data[k] : k \in SessKeys} \cup {x \in Cells : h[x] # "none"}

\* Memory management: an object nothing reaches is gone.
Collect(c, s, h) ==
    [x \in Cells |-> IF x \in Reach(c, Roots(s, h)) THEN c[x] ELSE FreeCell]

Free(c) == {x \in Cells : c[x] = FreeCell}
First(S) == CHOOSE x \in S : \A y \in S : x <= y

\* A copy that shares the inner object with the original.
ShallowClone(c, ref) ==
    [cells |-> [c EXCEPT ![First(Free(c))] = c[ref]], ref |-> First(Free(c))]

\* structuredClone(value): new objects all the way down.
StructuredClone(c, ref) ==
    LET a == First(Free(c))
        b == First(Free(c) \ {a})
    IN  [cells |-> [c EXCEPT ![a] = Outer(c[ref].tag, b), ![b] = c[The(c[ref].inner)]],
         ref |-> a]

\* What deep equality compares: the primitives of a value.
DeepValue(c, ref) == <<c[ref].tag, c[The(c[ref].inner)].tag>>

\* What read(key) returns, up to deep equality.
ReadValue(key) ==
    IF session.data[key] = Undefined THEN Undefined
    ELSE Some(DeepValue(cells, The(session.data[key])))

\* this.write(key, value) with the object r as value.
WriteBody(key, r) ==
    LET copy == StructuredClone(cells, r)
        s == [session EXCEPT !.data[key] = Some(copy.ref), !.dirty = TRUE, !.pending = Undefined]
        h == [held EXCEPT ![r] = "written"]
    IN  /\ Cardinality(Free(cells)) >= 2
        /\ session' = s
        /\ held' = h
        /\ cells' = Collect(copy.cells, s, h)

\* User code makes a value.
Make ==
    /\ Cardinality(Free(cells)) >= 2
    /\ LET a == First(Free(cells))
           b == First(Free(cells) \ {a})
       IN  /\ cells' = [cells EXCEPT ![a] = Outer(0, b), ![b] = Inner(0)]
           /\ held' = [held EXCEPT ![a] = "made"]
    /\ last' = Done("make", <<>>, Undefined)
    /\ UNCHANGED <<session, sessVars, utilVars, backend, options, now, memVars, kvVars, s3Vars, calls, written, plain>>

\* User code changes an object it holds (bar.push(false)) or the object
\* inside it (bar[1].answer = 43).  The result recorded is how it came by it.
Mutate(r, part) ==
    /\ held[r] # "none"
    /\ LET x == IF part = "outer" THEN r ELSE The(cells[r].inner)
       IN  cells' = [cells EXCEPT ![x].tag = 1 - @]
    /\ last' = Done("mutate", part, Some(held[r]))
    /\ UNCHANGED <<session, held, sessVars, utilVars, backend, options, now, memVars, kvVars, s3Vars, calls, written, plain>>

\* User code lets go of an object.
Release(r) ==
    /\ held[r] # "none"
    /\ held' = [held EXCEPT ![r] = "none"]
    /\ cells' = Collect(cells, session, held')
    /\ last' = Done("release", <<>>, Undefined)
    /\ UNCHANGED <<session, sessVars, utilVars, backend, options, now, memVars, kvVars, s3Vars, calls, written, plain>>

\* The synchronous methods of Session.  read and consume hand a copy to user
\* code; write is given the object r.  The result recorded is the value
\* returned, up to deep equality.
SessionCall(op, key, r) ==
    /\ CASE op = "check" ->
              /\ last' = Done(op, key, Some(session.data[key] # Undefined))
              /\ UNCHANGED <<cells, session, held>>
         [] op \in {"read", "consume"} ->
              /\ last' = Done(op, key, ReadValue(key))
              /\ LET copy == StructuredClone(cells, The(session.data[key]))
                     s == IF op = "read" THEN session
                          ELSE [session EXCEPT !.data[key] = Undefined, !.dirty = TRUE]
                 IN  IF session.data[key] = Undefined
                     THEN /\ session' = s
                          /\ UNCHANGED <<cells, held>>
                     ELSE /\ Cardinality(Free(cells)) >= 2
                          /\ session' = s
                          /\ held' = [held EXCEPT ![copy.ref] = "read"]
                          /\ cells' = Collect(copy.cells, s, held')
         [] op = "write" ->
              /\ held[r] # "none"
              /\ session.pending = Undefined
              /\ WriteBody(key, r)
              /\ last' = Done(op, key, Undefined)
         [] op = "delete" ->
              /\ session' = [session EXCEPT !.data[key] = Undefined, !.dirty = TRUE]
              /\ cells' = Collect(cells, session', held)
              /\ last' = Done(op, key, Undefined)
              /\ UNCHANGED held
         [] op = "clear" ->
              /\ session' = [session EXCEPT !.data = EmptyBag, !.dirty = TRUE]
              /\ cells' = Collect(cells, session', held)
              /\ last' = Done(op, key, Undefined)
              /\ UNCHANGED held
    /\ UNCHANGED <<sessVars, utilVars, backend, options, now, memVars, kvVars, s3Vars, calls, written, plain>>

\* remember(key, callback) up to its await: a present value is returned as
\* read returns it, otherwise the callback is invoked.
SessionRemember(key) ==
    /\ session.pending = Undefined
    /\ LET copy == StructuredClone(cells, The(session.data[key]))
       IN  IF session.data[key] = Undefined
           THEN /\ session' = [session EXCEPT !.pending = Some(key), !.invoked = 1]
                /\ last' = Done("remember", key, Undefined)
                /\ UNCHANGED <<cells, held>>
           ELSE /\ Cardinality(Free(cells)) >= 2
                /\ held' = [held EXCEPT ![copy.ref] = "read"]
                /\ cells' = copy.cells
                /\ session' = [session EXCEPT !.invoked = 0]
                /\ last' = Done("remember", key, Some(Fulfilled(ReadValue(key))))
    /\ UNCHANGED <<sessVars, utilVars, backend, options, now, memVars, kvVars, s3Vars, calls, written, plain>>

\* The callback of remember settles: its value r is written and returned,
\* or its error is thrown on.
SessionRememberSettles(ok, r) ==
    /\ session.pending # Undefined
    /\ IF ok
       THEN /\ held[r] # "none"
            /\ WriteBody(The(session.pending), r)
            /\ last' = Done("remembered", The(session.pending), Some(Fulfilled(Some(DeepValue(cells, r)))))
       ELSE /\ r = 1
            /\ session' = [session EXCEPT !.pending = Undefined]
            /\ last' = Done("remembered", The(session.pending), Some(Rejected("cbErr")))
            /\ UNCHANGED <<cells, held>>
    /\ UNCHANGED <<sessVars, utilVars, backend, options, now, memVars, kvVars, s3Vars, calls, written, plain>>

----------------------------------------------------------------------------
(* The program around one Session object constructed with a value under    *)
(* the key 'a': new Session('foobarbaz', { a: [0, { answer: 0 }] }).        *)

ObjInit ==
    /\ CacheStart("object")
    /\ NoUtils
    /\ NoSessions
    /\ options \in [defaultTTL : {Undefined}, defaultJitter : {Undefined}]
    /\ cells = [c \in Cells |-> IF c = 1 THEN Outer(0, 2) ELSE IF c = 2 THEN Inner(0) ELSE FreeCell]
    /\ session = [data |-> [k \in SessKeys |-> Some(1)], dirty |-> FALSE, pending |-> Undefined,
                  invoked |-> 0]
    /\ held = [c \in Cells |-> "none"]

ObjNext ==
    \/ Make
    \/ \E r \in Cells : \E part \in {"outer", "inner"} : Mutate(r, part)
    \/ \E r \in Cells : Release(r)
    \/ \E op \in {"check", "read", "consume", "delete", "clear"} : \E key \in SessKeys : SessionCall(op, key, 1)
    \/ \E key \in SessKeys : \E r \in Cells : SessionCall("write", key, r)
    \/ \E key \in SessKeys : SessionRemember(key)
    \/ \E ok \in BOOLEAN : \E r \in Cells : SessionRememberSettles(ok, r)

ObjSpec == ObjInit /\ [][ObjNext]_vars

\* C22: read and write copy deeply: a change user code makes to an object
\* it holds, or to the object nested in it, whether it made the object,
\* passed it to write or got it from read, changes neither what read(k)
\* returns for any key k nor the dirty flag; and no object of the session's
\* data can be reached from an object user code holds.
C22_DeepCopy ==
    [][/\ last'.op = "mutate" =>
             /\ \A k \in SessKeys : ReadValue(k)' = ReadValue(k)
             /\ session' = session
       /\ Reach(cells', {x \in Cells : held'[x] # "none"})
             \cap Reach(cells', UNION {session'.data[k] : k \in SessKeys}) = {}
      ]_vars

\* User code has changed the object nested in a value it had passed to
\* write('a', ...), and read('a') still returns the value as written.
C22_Witness ==
    /\ last = Done("mutate", "inner", Some("written"))
    /\ session.dirty
    /\ ReadValue("a") = Some(<<0, 0>>)
    /\ \E r \in Cells : held[r] = "written" /\ DeepValue(cells, r) = <<0, 1>>


\* C23 for one Session object: check and read change neither the data nor
\* the dirty flag; write, delete, consume and clear leave dirty = true;
\* remember on a present key returns the value, invokes no callback and
\* changes nothing, on an absent key it stores the value of the callback
\* and leaves dirty = true, and when the callback rejects it rejects with
\* the same error and changes neither data nor dirty; and a session that is
\* not dirty holds the data it was constructed with.
C23_DirtyTracking ==
    [][LET same == /\ \A k \in SessKeys : ReadValue(k)' = ReadValue(k)
                   /\ session'.dirty = session.dirty
       IN  /\ last'.op \in {"check", "read"} => same
           /\ last'.op \in {"write", "delete", "consume", "clear"} => session'.dirty
           /\ \A key \in SessKeys :
                 (last'.op = "remember" /\ last'.key = key /\ session.pending = Undefined) =>
                    /\ same
                    /\ IF ReadValue(key) # Undefined
                       THEN /\ last'.result = Some(Fulfilled(ReadValue(key)))
                            /\ session'.invoked = 0
                            /\ session'.pending = Undefined
                       ELSE session'.invoked = 1
           /\ \A key \in SessKeys :
                 (last'.op = "remembered" /\ last'.key = key /\ session.pending # Undefined) =>
                    IF The(last'.result).status = "fulfilled"
                    THEN /\ ReadValue(key)' = The(last'.result).value
                         /\ session'.dirty
                    ELSE /\ same
                         /\ last'.result = Some(Rejected("cbErr"))
           /\ ~session'.dirty => \A k \in SessKeys : ReadValue(k)' = Some(<<0, 0>>)
      ]_vars

\* C23: a session that is not dirty holds exactly the data it was restored
\* with: while the session of a call has been restored, is not dirty and
\* has not been persisted, its data do not change.
C23_CleanUnchanged ==
    [][\A f \in Flows :
          (/\ flows[f].sess # Undefined
           /\ flows'[f].sess = flows[f].sess
           /\ ~The(flows[f].sess).dirty
           /\ flows[f].persist = "none") =>
              heap'[The(flows[f].sess).data] = heap[The(flows[f].sess).data]
      ]_vars


----------------------------------------------------------------------------
(* RedisCache.  One instance without keyPrefix over one client.  The       *)
(* database maps a key to the JSON text stored under it and to the expiry  *)
(* in seconds given to SETEX.  A command the client is given either        *)
(* succeeds (ok) or is rejected by the transport.                          *)

\* JSON.stringify(value) of a string value: the value between quotes.
JsonStringify(value) == <<"\"", value, "\"">>

\* JSON.parse(val), undefined when val is malformed.
JsonParse(val) ==
    IF Len(val) = 3 /\ val[1] = "\"" /\ val[3] = "\"" THEN Some(val[2]) ELSE Undefined

\* #connect() up to its await, run twice: client.connect() is called again.
RedisConnectAgain(r) == [r EXCEPT !.connect = "pending", !.connects = @ + 1]

\* A #connect() that forgets a rejected promise and connects again.
RedisConnectRetry(r) ==
    IF r.connect \in {"none", "rejected"}
    THEN [r EXCEPT !.connect = "pending", !.connects = @ + 1]
    ELSE r

\* #connect() up to its await: client.connect() is called when no connect
\* promise is memoized.
RedisConnect(r) ==
    IF r.connect = "none"
    THEN [r EXCEPT !.connect = "pending", !.connects = @ + 1]
    ELSE r

\* `await this.#connectPromise`: the call goes on once the promise is settled.
Awaited(connect) == connect \in {"resolved", "rejected"}

\* The operations of the cache, with the arguments the program passes.
RedisOps == {"get", "set", "delete", "keys", "clearPattern"}
RedisTtlArgs == {Undefined} \cup {Some(t) : t \in TTLs}
RedisJitterArgs(ttl) == IF ttl = Undefined THEN {Undefined} ELSE {Undefined, Some("full"), Some("equal")}

\* A call of get, set, delete, keys().next or clearPattern('*') by caller q:
\* it runs to the await of #connect().
RedisCall(q, op, key, value, ttl, jitter) ==
    /\ redis.procs[q].pc \in {"idle", "done"}
    /\ op # "set" => value = Undefined /\ ttl = Undefined
    /\ op = "set" => value # Undefined
    /\ jitter \in RedisJitterArgs(ttl)
    /\ redis' = [RedisConnect(redis) EXCEPT
                    !.procs[q] = [pc |-> "connect", op |-> op, key |-> key, value |-> value,
                                  ttl |-> ttl, jitter |-> jitter, ex |-> Undefined,
                                  result |-> Undefined]]
    /\ UNCHANGED <<cacheVars, sessVars, objVars, retry, pool>>

\* The promise of client.connect() settles.
RedisConnectSettles(ok) ==
    /\ redis.connect = "pending"
    /\ redis' = [redis EXCEPT !.connect = IF ok THEN "resolved" ELSE "rejected"]
    /\ UNCHANGED <<cacheVars, sessVars, objVars, retry, pool>>

\* `Math.round(jitterFn(ttl))`: the seconds the set of call p gives to
\* setEx; none when it has no ttl and calls client.set.
RedisSeconds(p, n) ==
    IF p.op = "set" /\ TtlArg(p.ttl) # Undefined
    THEN Some(Round(JitterNum(CreateJitter(JitterArg(p.jitter)), n, The(TtlArg(p.ttl)))))
    ELSE Undefined

\* The server refuses a SETEX whose expiry is not positive ("invalid expire
\* time"); the client rejects the command.
RedisAccepts(p, n) == RedisSeconds(p, n) = Undefined \/ The(RedisSeconds(p, n)) >= 1

\* The database after the command of call p has succeeded.
RedisCommand(db, p, n) ==
    CASE p.op = "set" ->
           [db EXCEPT ![Key("base", p.key)] =
               Some([val |-> JsonStringify(The(p.value)), ex |-> RedisSeconds(p, n)])]
      [] p.op = "delete" -> [db EXCEPT ![Key("base", p.key)] = Undefined]
      [] p.op = "clearPattern" ->
           [k \in DOMAIN db |-> IF Glob(Key("base", <<"*">>), k) THEN Undefined ELSE db[k]]
      [] OTHER -> db

\* What call p resolves to when its command has succeeded.
RedisResult(db, p) ==
    CASE p.op = "get" ->
           IF db[Key("base", p.key)] = Undefined
           THEN Fulfilled(Undefined)
           ELSE Fulfilled(JsonParse(The(db[Key("base", p.key)]).val))
      [] p.op = "keys" ->
           Fulfilled({The(StripPrefix("base", k)) :
                        k \in {x \in DOMAIN db : db[x] # Undefined /\ Glob(Key("base", <<"*">>), x)}})
      [] OTHER -> Fulfilled(Undefined)

\* The call of caller q goes on after `await this.#connect()`: a rejected
\* connect promise rejects the call; otherwise the command is given to the
\* client, and a rejected command rejects the call, except in set, which
\* logs it.  ex records the seconds given to setEx.
RedisResume(q, n, ok) ==
    LET p == redis.procs[q]
    IN  /\ p.pc = "connect"
        /\ Awaited(redis.connect)
        /\ (p.op # "set" \/ TtlArg(p.ttl) = Undefined
               \/ CreateJitter(JitterArg(p.jitter)) = "none") => n = 0
        /\ IF redis.connect = "rejected"
           THEN /\ ok
                /\ n = 0
                /\ redis' = [redis EXCEPT !.procs[q].pc = "done",
                                          !.procs[q].result = Some(Rejected("connectError"))]
           ELSE redis' = [redis EXCEPT
                    !.early = @ \/ redis.connect # "resolved",
                    !.db = IF ok /\ RedisAccepts(p, n) THEN RedisCommand(redis.db, p, n) ELSE @,
                    !.procs[q].pc = "done",
                    !.procs[q].ex = RedisSeconds(p, n),
                    !.procs[q].result =
                        IF ok /\ RedisAccepts(p, n) THEN Some(RedisResult(redis.db, p))
                        ELSE IF p.op = "set" THEN Some(Fulfilled(Undefined))
                        ELSE Some(Rejected("commandError"))]
        /\ UNCHANGED <<cacheVars, sessVars, objVars, retry, pool>>

\* The program of two callers over one RedisCache instance.
RedisInit ==
    /\ Start("redis")
    /\ options \in [defaultTTL : {Undefined}, defaultJitter : {Undefined}]

RedisNext ==
    \/ \E q \in RedisCallers, op \in RedisOps, key \in RedisKeys :
          \E value \in {Undefined} \cup {Some(v) : v \in Values}, ttl \in RedisTtlArgs :
             \E jitter \in {Undefined, Some("full"), Some("equal")} :
                RedisCall(q, op, key, value, ttl, jitter)
    \/ \E ok \in BOOLEAN : RedisConnectSettles(ok)
    \/ \E q \in RedisCallers, n \in Rand, ok \in BOOLEAN : RedisResume(q, n, ok)

RedisSpec == RedisInit /\ [][RedisNext]_vars

\* C24 (RedisCache): set never rejects because of a transport failure,
\* a failure to establish the connection included: every completed set
\* has resolved.
C24_RedisSetResolves ==
    \A q \in RedisCallers :
        (redis.procs[q].pc = "done" /\ redis.procs[q].op = "set") =>
            redis.procs[q].result = Some(Fulfilled(Undefined))

\* C24 (S3Cache): a completed set has resolved whatever the transport did,
\* and a set the bucket did not accept has left it as it was.
C24_S3SetResolves ==
    [][\A k \in FullKeys :
          (last'.op = "set" /\ last'.key = k /\ ~The(written'[k]).ok) => bucket' = bucket
      ]_vars

\* C25: S3Cache.get never rejects: whatever fails while the object is
\* fetched, the body being read included, get resolves to absent.
C25_GetNeverRejects == last.op # "get rejected"

\* C30: under any interleaving of concurrent get, set, delete, keys and
\* clearPattern calls on one instance, client.connect() is invoked at most
\* once and no command is given to the client before the promise of that
\* connect has resolved.
C30_ConnectOnce ==
    /\ redis.connects <= 1
    /\ ~redis.early
    /\ \A q \in RedisCallers :
          redis.procs[q].pc # "idle" => redis.connects = 1 /\ redis.connect # "none"
    /\ \A q \in RedisCallers :
          (redis.procs[q].pc = "done" /\ redis.connect # "resolved") =>
              redis.procs[q].result = Some(Rejected("connectError"))

\* Two callers have completed a command, a set and a get that read its
\* value, over the one connection of the instance.
C30_Witness ==
    /\ redis.connects = 1
    /\ redis.connect = "resolved"
    /\ redis.procs["q1"].pc = "done" /\ redis.procs["q1"].op = "set"
    /\ redis.procs["q2"].pc = "done" /\ redis.procs["q2"].op = "get"
    /\ redis.procs["q2"].result = Some(Fulfilled(Some("v1")))

----------------------------------------------------------------------------
(* createJitter applied: the program calls createJitter(mode)(x) with a    *)
(* policy name, some other string or a function of its own.                *)

\* The largest base value passed to a jitter function.
MaxBase == 16

\* What the program passes to createJitter.
JitterInputs == JitterModes \cup JitterFns \cup ObjectPrototype \cup {"bogus"}

\* fn(value) for the function createJitter returned, as a numerator over
\* JitterDen; undefined when the result is not a number
\* (Object.prototype.toString returns the string '[object Undefined]').
JitterApply(fn, n, value) ==
    IF fn \in JitterModes THEN Some(JitterNum(fn, n, value))
    ELSE IF fn = "double" THEN Some(2 * value * JitterDen)
    ELSE Undefined

\* createJitter(mode)(x), Math.random() returning n / RandDen.
JitterCall(mode, x, n) ==
    /\ CreateJitter(mode) \notin {"full", "equal"} => n = 0
    /\ last' = Done("jitter", <<mode>>,
                    [x |-> x, fn |-> CreateJitter(mode), num |-> JitterApply(CreateJitter(mode), n, x)])
    /\ UNCHANGED <<backend, sessVars, objVars, utilVars, options, now, memVars, kvVars, s3Vars,
                   calls, written, plain>>

JitterInit ==
    /\ Start("jitter")
    /\ options \in [defaultTTL : {Undefined}, defaultJitter : {Undefined}]

JitterNext == \E mode \in JitterInputs, x \in 0 .. MaxBase, n \in Rand : JitterCall(mode, x, n)

JitterSpec == JitterInit /\ [][JitterNext]_vars

\* The bounds of the three policies: None gives x, Full a value in [0, x],
\* Equal a value in [x/2, x]; a function is returned unchanged.
JitterBounds(mode, r) ==
    /\ mode = "none" => r.num = Some(r.x * JitterDen)
    /\ mode = "full" => r.num # Undefined /\ 0 <= The(r.num) /\ The(r.num) <= r.x * JitterDen
    /\ mode = "equal" =>
          r.num # Undefined /\ r.x * JitterDen <= 2 * The(r.num) /\ The(r.num) <= r.x * JitterDen
    /\ mode \in JitterFns => r.fn = mode

\* C26: jitter bounds: None gives x, Full lies in [0, x], Equal in
\* [x/2, x]; a function passed instead of a policy is returned unchanged and
\* any string that is not a policy name behaves as None.
C26_JitterBounds ==
    last.op = "jitter" =>
        /\ JitterBounds(last.key[1], last.result)
        /\ last.key[1] \notin JitterModes \cup JitterFns =>
              last.result.fn = "none" /\ last.result.num = Some(last.result.x * JitterDen)

\* C26, for the policy names, for functions and for the strings no object
\* has as a property: the bounds hold and the string falls back to None.
C26_OwnNames ==
    (last.op = "jitter" /\ last.key[1] \notin ObjectPrototype) =>
        /\ JitterBounds(last.key[1], last.result)
        /\ last.key[1] \notin JitterModes \cup JitterFns =>
              last.result.fn = "none" /\ last.result.num = Some(last.result.x * JitterDen)

----------------------------------------------------------------------------
(* backoffRetry (utils/misc).  One call, from the first invocation of      *)
(* factory to the settling of the promise.  maxAttempts = Infinity, the    *)
(* default, is written as -1.                                              *)

\* The invocations of factory a call with maxAttempts = Infinity is followed
\* for.
MaxInvocations == 4

\* The arguments of the program: the tests use baseMs 10 with capMs 50 and 15.
BaseArgs == {10}
CapArgs == {15, 30}
MaxAttemptsArgs == {-1, 0, 1, 2, 3}

\* `attempt >= maxAttempts`, reversed: one attempt more is allowed.
ExhaustedLate(attempt, maxAttempts) == maxAttempts >= 0 /\ attempt > maxAttempts

\* `attempt >= maxAttempts`
Exhausted(attempt, maxAttempts) == maxAttempts >= 0 /\ attempt >= maxAttempts

\* `baseMs * 2 ** attempt`, without the cap.
BackoffUncapped(baseMs, capMs, attempt) == baseMs * 2^attempt

\* `Math.min(baseMs * 2 ** attempt, capMs)`
Backoff(baseMs, capMs, attempt) ==
    IF baseMs * 2^attempt <= capMs THEN baseMs * 2^attempt ELSE capMs

\* sleep(attempt) of backoffRetry, as a numerator over JitterDen.
RetrySleep(r, attempt, n) ==
    JitterNum(CreateJitter(r.jitter), n, Backoff(r.baseMs, r.capMs, attempt))

\* backoffRetry(factory, baseMs, capMs, maxAttempts, jitterMode) up to its
\* first await: factory is invoked.
RetryCall(baseMs, capMs, maxAttempts, mode) ==
    /\ retry.pc = "idle"
    /\ retry' = [retry EXCEPT !.pc = "factory", !.baseMs = baseMs, !.capMs = capMs,
                              !.maxAttempts = maxAttempts, !.jitter = mode, !.invoked = 1]
    /\ UNCHANGED <<cacheVars, sessVars, objVars, redis, pool>>

\* `await factory()` settles: with a value, with undefined, or rejected.
\* After undefined the attempt is counted and, unless the attempts are
\* exhausted, timeout(sleep(attempt - 1)) is started.
FactorySettles(yield, n) ==
    /\ retry.pc = "factory"
    /\ (yield # "undefined" \/ CreateJitter(retry.jitter) = "none"
           \/ Exhausted(retry.attempt + 1, retry.maxAttempts)) => n = 0
    /\ retry' =
          CASE yield = "value" ->
                 [retry EXCEPT !.pc = "done", !.yields = Append(@, yield),
                               !.result = Some(Fulfilled(Some("foo")))]
            [] yield = "rejected" ->
                 [retry EXCEPT !.pc = "done", !.yields = Append(@, yield),
                               !.result = Some(Rejected("factoryError"))]
            [] yield = "undefined" ->
                 IF Exhausted(retry.attempt + 1, retry.maxAttempts)
                 THEN [retry EXCEPT !.pc = "done", !.yields = Append(@, yield),
                                    !.attempt = @ + 1, !.result = Some(Fulfilled(Undefined))]
                 ELSE [retry EXCEPT !.pc = "sleep", !.yields = Append(@, yield),
                                    !.attempt = @ + 1,
                                    !.delays = Append(@, RetrySleep(retry, retry.attempt, n))]
    /\ UNCHANGED <<cacheVars, sessVars, objVars, redis, pool>>

\* The timer of timeout() fires: the loop invokes factory again.
TimeoutFires ==
    /\ retry.pc = "sleep"
    /\ retry.invoked < MaxInvocations
    /\ retry' = [retry EXCEPT !.pc = "factory", !.invoked = @ + 1]
    /\ UNCHANGED <<cacheVars, sessVars, objVars, redis, pool>>

RetryInit ==
    /\ Start("retry")
    /\ options \in [defaultTTL : {Undefined}, defaultJitter : {Undefined}]

RetryNext ==
    \/ \E baseMs \in BaseArgs, capMs \in CapArgs, maxAttempts \in MaxAttemptsArgs, mode \in JitterModes :
          RetryCall(baseMs, capMs, maxAttempts, mode)
    \/ \E yield \in {"value", "undefined", "rejected"}, n \in Rand : FactorySettles(yield, n)
    \/ TimeoutFires

RetrySpec == RetryInit /\ [][RetryNext]_vars

\* Every factory call settles and every timer fires.
RetryFair ==
    /\ RetrySpec
    /\ WF_vars(\E yield \in {"value", "undefined", "rejected"}, n \in Rand : FactorySettles(yield, n))
    /\ WF_vars(TimeoutFires)

C28_CappedBackoff ==
    \A k \in 1 .. Len(retry.delays) :
        /\ retry.jitter = "none" =>
              \/ /\ retry.baseMs * 2^(k - 1) <= retry.capMs
                 /\ retry.delays[k] = retry.baseMs * 2^(k - 1) * JitterDen
              \/ /\ retry.baseMs * 2^(k - 1) > retry.capMs
                 /\ retry.delays[k] = retry.capMs * JitterDen
        /\ retry.delays[k] <= retry.capMs * JitterDen

\* A call without jitter has slept baseMs, then twice baseMs, then capMs.
C28_Witness ==
    /\ retry.jitter = "none"
    /\ retry.baseMs = 10
    /\ retry.capMs = 30
    /\ retry.delays = <<10 * JitterDen, 20 * JitterDen, 30 * JitterDen>>

----------------------------------------------------------------------------
(* asyncIterablePool (utils/promises).  The jobs are factories, numbered   *)
(* in the order of the iterable; a started job is running until its        *)
(* promise is fulfilled or rejected.  The consumer pulls the results with  *)
(* next(); the body of the generator runs from one await or yield to the   *)
(* next without interruption.                                              *)

\* `pool.size >= concurrency`, off by one: one job more is let in.
PoolFullLate(size, concurrency) == size > concurrency

\* `pool.size >= concurrency`
PoolFull(size, concurrency) == size >= concurrency

\* The promises of the Map that have settled.
Settled(p) == {j \in p.pool : p.status[j] \in {"fulfilled", "rejected"}}

\* Promise.race(pool.values()) at the time it is called: of the promises
\* already settled the first of the Map wins; otherwise the first to settle.
Race(p) ==
    IF Settled(p) = {} THEN Undefined
    ELSE Some(CHOOSE j \in Settled(p) : \A i \in Settled(p) : j <= i)

\* The for loop from its head to `yield await first()`, or to the end of the
\* iterable: each job is started and put in the Map.
RECURSIVE StartJobs(_)
StartJobs(p) ==
    IF p.started = p.njobs THEN p
    ELSE LET j == p.started + 1
             q == [p EXCEPT !.started = j, !.status[j] = "running", !.pool = @ \cup {j},
                            !.atStart = IF Cardinality(p.pool) > @ THEN Cardinality(p.pool) ELSE @]
         IN  IF PoolFull(Cardinality(q.pool), q.concurrency) THEN q ELSE StartJobs(q)

\* The body of the generator from where it was suspended to its next
\* `await first()`, or to its end when the Map is empty.
RunPool(p) ==
    LET q == StartJobs(p)
    IN  IF q.pool = {}
        THEN [q EXCEPT !.pc = "done"]
        ELSE [q EXCEPT !.pc = "await", !.winner = Race(q)]

\* asyncIterablePool(jobs, concurrency) and the first next() of the consumer.
PoolCall(njobs, concurrency) ==
    /\ pool.pc = "idle"
    /\ pool' = RunPool([pool EXCEPT !.njobs = njobs, !.concurrency = concurrency])
    /\ UNCHANGED <<cacheVars, sessVars, objVars, redis, retry>>

\* The promise of a started job settles.
JobSettles(j, ok) ==
    /\ pool.status[j] = "running"
    /\ pool' = [pool EXCEPT
                  !.status[j] = IF ok THEN "fulfilled" ELSE "rejected",
                  !.winner = IF pool.pc = "await" /\ @ = Undefined /\ j \in pool.pool
                             THEN Some(j) ELSE @]
    /\ UNCHANGED <<cacheVars, sessVars, objVars, redis, retry>>

\* first() settles: the job that won the race is deleted from the Map and
\* its result is yielded; a rejected job makes the generator throw.
FirstSettles ==
    /\ pool.pc = "await"
    /\ pool.winner # Undefined
    /\ LET j == The(pool.winner)
       IN  pool' = IF pool.status[j] = "fulfilled"
                   THEN [pool EXCEPT !.pc = "yield", !.pool = @ \ {j}, !.winner = Undefined,
                                     !.yielded = Append(@, j)]
                   ELSE [pool EXCEPT !.pc = "failed", !.winner = Undefined]
    /\ UNCHANGED <<cacheVars, sessVars, objVars, redis, retry>>

\* The consumer calls next() again: the generator goes on after its yield.
PoolPull ==
    /\ pool.pc = "yield"
    /\ pool' = RunPool(pool)
    /\ UNCHANGED <<cacheVars, sessVars, objVars, redis, retry>>

PoolInit ==
    /\ Start("pool")
    /\ options \in [defaultTTL : {Undefined}, defaultJitter : {Undefined}]

PoolNext ==
    \/ \E njobs \in 0 .. MaxJobs, concurrency \in 1 .. MaxConcurrency : PoolCall(njobs, concurrency)
    \/ \E j \in Jobs, ok \in BOOLEAN : JobSettles(j, ok)
    \/ FirstSettles
    \/ PoolPull

PoolSpec == PoolInit /\ [][PoolNext]_vars

\* The jobs that have been started and whose result has not been yielded.
InFlight ==
    {j \in Jobs : pool.status[j] # "unstarted" /\ \A i \in 1 .. Len(pool.yielded) : pool.yielded[i] # j}

\* C29: at every moment at most `concurrency` jobs have been started
\* without their result having been yielded, a job is started only when
\* fewer than `concurrency` such jobs exist, no result is yielded twice, and
\* when no job rejects the generator ends with every job's result yielded.
C29_Pool ==
    pool.pc # "idle" =>
        /\ Cardinality(InFlight) <= pool.concurrency
        /\ pool.atStart < pool.concurrency
        /\ \A i, k \in 1 .. Len(pool.yielded) : pool.yielded[i] = pool.yielded[k] => i = k
        /\ \A i \in 1 .. Len(pool.yielded) : pool.status[pool.yielded[i]] = "fulfilled"
        /\ pool.pc = "done" =>
              \A j \in 1 .. pool.njobs : \E i \in 1 .. Len(pool.yielded) : pool.yielded[i] = j

\* Four jobs with concurrency 2 have all been yielded, the second before
\* the first, and two jobs were in progress when the last one was started.
C29_Witness ==
    /\ pool.pc = "done"
    /\ pool.njobs = 4
    /\ pool.concurrency = 2
    /\ Len(pool.yielded) = 4
    /\ pool.yielded[1] = 2
    /\ pool.atStart = 1

----------------------------------------------------------------------------
(* The program that interleaves set and clear on the root cache and on its *)
(* child 'f:' with the deferred batches of housekeeping and clear: a set   *)
(* or clear may be called while a continuation is still queued.  The Map   *)
(* holds up to three entries, one more than a batch.                       *)

SweepInit ==
    /\ Start("sweep")
    /\ options \in [maxItems : {Undefined, Some(1)}, defaultTTL : {Undefined}, defaultJitter : {Undefined}]

SweepNext ==
    \/ \E c \in MemCaches : \E key \in KvCallKeys(c) : \E ttl \in TtlArgs(c, key) :
          MemSet(c, key, "v1", ttl, Undefined, 0)
    \/ MemGet("base", <<"k">>)
    \/ MemClear("foo", Undefined)
    \/ \E rs \in [1 .. BatchSize -> Rand] : RunImmediate(rs)
    \/ \E t \in TimePoints : Tick(t)

SweepSpec == SweepInit /\ [][SweepNext]_vars

\* C31: a batch of housekeeping deletes an entry only if the entry
\* belongs to the namespace of the cache whose set scheduled the sweep and
\* either had expired at the time of that set or that namespace held more
\* than maxItems entries at the time of that set; without maxItems, or with
\* at most maxItems entries, no unexpired entry is deleted.
C31_SweepDeletes ==
    [][(last'.op = "immediate" /\ Head(immediates).kind = "housekeeping") =>
          \A i \in 1 .. Len(inner) :
             MapGet(inner', inner[i].key) = Undefined =>
                /\ StripPrefix(Head(immediates).cache, inner[i].key) # Undefined
                /\ \/ /\ inner[i].expire # Undefined
                      /\ The(inner[i].expire) < Head(immediates).now
                   \/ /\ options.maxItems # Undefined
                      /\ Head(immediates).count > The(options.maxItems)
      ]_vars

\* Without maxItems, a batch has deleted the entry of 'k', which was written
\* with a ttl.
C31_Witness ==
    /\ last.op = "immediate"
    /\ options.maxItems = Undefined
    /\ written[<<"k">>] # Undefined
    /\ The(written[<<"k">>]).swept
    /\ The(written[<<"k">>]).ttl # Undefined
    /\ MapGet(inner, <<"k">>) = Undefined

----------------------------------------------------------------------------
(* The program that only writes through the root cache, with or without a  *)
(* ttl and without a capacity, while the clock advances and the event loop *)
(* runs the callbacks of housekeeping; nothing is read, deleted or         *)
(* cleared.                                                                *)

DeferInit ==
    /\ Start("sweep")
    /\ options = [maxItems |-> Undefined, defaultTTL |-> Undefined, defaultJitter |-> Undefined]

DeferNext ==
    \/ \E key \in FullKeys : \E ttl \in TtlArgs("base", key) :
          MemSet("base", key, "v1", ttl, Undefined, 0)
    \/ \E rs \in [1 .. BatchSize -> Rand] : RunImmediate(rs)
    \/ \E t \in TimePoints : Tick(t)

DeferSpec == DeferInit /\ [][DeferNext]_vars

\* The event loop runs every callback given to setImmediate.
DeferFair == DeferSpec /\ WF_vars(\E rs \in [1 .. BatchSize -> Rand] : RunImmediate(rs))

\* C32: housekeeping does not run inside set: set changes only the entry
\* it writes and queues one callback, whose iterator does not exist yet; the
\* callback visits BatchSize entries and queues itself again, or visits the
\* fewer entries that are left and stops; and once no set is called any
\* more, the queue of callbacks becomes empty and stays so.
C32_Deferred ==
    /\ [][/\ last'.op = "set" =>
                /\ \A i \in 1 .. Len(inner) :
                      inner[i].key # last'.key => MapGet(inner', inner[i].key) = Some(inner[i])
                /\ Len(immediates') = Len(immediates) + 1
                /\ immediates'[Len(immediates')].kind = "housekeeping"
                /\ immediates'[Len(immediates')].pos = Undefined
          /\ last'.op = "immediate" =>
                LET pos == IF Head(immediates).pos = Undefined THEN 0 ELSE The(Head(immediates).pos)
                    deleted == Len(inner) - Len(inner')
                IN  IF Len(immediates') = Len(immediates)
                    THEN /\ immediates'[Len(immediates')].pos # Undefined
                         /\ The(immediates'[Len(immediates')].pos) - pos + deleted = BatchSize
                    ELSE /\ Len(immediates') = Len(immediates) - 1
                         /\ Len(inner) - pos < BatchSize
                         /\ deleted <= Len(inner) - pos
         ]_vars
    /\ (<>[][last'.op # "set"]_vars => <>[](immediates = <<>>))

\* A sweep over three entries has taken two callbacks: the second one, with
\* its iterator past two entries, has just run and the queue is empty.
C32_Witness ==
    /\ last.op = "immediate"
    /\ Len(inner) = 3
    /\ immediates = <<>>
    /\ options.maxItems = Undefined

----------------------------------------------------------------------------
(* Expired entries that nobody touches.                                    *)

\* C33: every entry whose expiry has passed is eventually removed from the
\* Map, whatever the program does afterwards: in every behaviour in which
\* the event loop runs the callbacks it was given, an expired entry of the
\* Map leads to the Map not holding it (its key is absent, or has been
\* written again with an expiry that has not passed).
C33_EventuallyRemoved ==
    \A k \in FullKeys :
        (MapGet(inner, k) # Undefined /\ ~IsValid(The(MapGet(inner, k)), now))
            ~> (MapGet(inner, k) = Undefined \/ IsValid(The(MapGet(inner, k)), now))

----------------------------------------------------------------------------
(* The delete that S3Cache.get starts for an expired object.               *)

\* C34: a get of S3Cache on an object whose 'expires-at' is earlier than
\* the clock resolves to absent while the object is still in the bucket
\* (the only request it may leave in flight is the delete of that key), and
\* the delete it started ends fulfilled or logged, never as a rejection of
\* get or an unhandled rejection; a failed delete leaves the bucket as it
\* was.
C34_ExpiredGet ==
    [][/\ (/\ last'.op \in {"get", "get rejected"}
           /\ bucket[last'.key] # Undefined
           /\ S3Expired(The(bucket[last'.key])))
          => /\ last'.op = "get"
             /\ last'.result = Undefined
             /\ bucket' = bucket
             /\ pending' \in {pending, pending \cup {last'.key}}
       /\ last'.op = "deleted"
          => /\ last'.result \in {Some("fulfilled"), Some("logged")}
             /\ last'.result = Some("logged") => bucket' = bucket
             /\ pending' = pending \ {last'.key}
      ]_vars

\* The delete started by a get has failed and has been logged: the expired
\* object is still in the bucket.
C34_Witness ==
    /\ last.op = "deleted"
    /\ last.result = Some("logged")
    /\ bucket[last.key] # Undefined
    /\ S3Expired(The(bucket[last.key]))

\* C35: the delete that get(k) started for an expired object never removes
\* a value stored under k afterwards: when that delete settles while the
\* bucket holds a live object under k (one written by a set issued after the
\* get returned), the bucket is left as it is.
C35_DeleteSparesNewValue ==
    [][(/\ last'.op = "deleted"
        /\ bucket[last'.key] # Undefined
        /\ ~S3Expired(The(bucket[last'.key])))
       => bucket' = bucket
      ]_vars

----------------------------------------------------------------------------
(* The deferred batches of clear() and the entries written meanwhile.      *)

\* C36: a deferred batch of clear() removes no entry that was written by a
\* set after that clear was called: every key that has been set since the
\* last clear selecting it, and is in the Map, is in the Map after the
\* batch.
C36_ClearSparesLaterSets ==
    [][(last'.op = "immediate" /\ Head(immediates).kind = "clear") =>
          \A k \in FullKeys :
             (written[k] # Undefined /\ MapGet(inner, k) # Undefined)
                => MapGet(inner', k) # Undefined
      ]_vars

----------------------------------------------------------------------------
(* Sessions and the storage behind them.                                   *)

\* C37: what the storage holds changes only when a storage.set of #persist
\* is called or settles: a step in which no request calls storage.set and
\* no storage.set settles (a write, delete, consume or clear on a session
\* among them) leaves storage.get(id) of every id as it was, whatever the
\* kind of storage.
C37_Isolated ==
    [][(\A f \in Flows : flows'[f].sets = flows[f].sets /\ flows'[f].persist = flows[f].persist)
          => Entries' = Entries
      ]_vars

\* The same of a storage that keeps and hands out copies.
C37_IsolatedCopies ==
    [][(/\ storageKind = "copy"
        /\ \A f \in Flows : flows'[f].sets = flows[f].sets /\ flows'[f].persist = flows[f].persist)
          => Entries' = Entries
      ]_vars

\* C38: with a storage that keeps copies, each call of Session.with
\* invokes storage.set at most once, and the step in which the storage.set
\* of a request takes effect leaves under the id of its session the
\* complete data bag of that request and leaves the other entries alone:
\* nothing of what the storage held before under that id is merged in, so
\* of two requests that overlap the one whose storage.set takes effect last
\* decides the entry.
C38_LostUpdate ==
    [][\A f \in Flows :
          /\ flows'[f].sets <= 1
          /\ (/\ storageKind = "copy"
              /\ flows[f].persist = "pending"
              /\ flows'[f].persist = "resolved") =>
                LET s == The(flows[f].sess)
                IN  /\ Entries'[s.id] = Some(heap[s.data])
                    /\ \A i \in SessIds \ {s.id} : Entries'[i] = Entries[i]
      ]_vars

\* Both requests carried the cookie 's1', changed the session and have
\* persisted it to a storage that keeps copies: the storage holds the data
\* bag of "r1", and the one of "r2", which differs, is lost.
C38_Witness ==
    /\ storageKind = "copy"
    /\ \A f \in Flows :
          /\ flows[f].persist = "resolved"
          /\ flows[f].sets = 1
          /\ flows[f].gets = 1
          /\ The(flows[f].sess).id = "s1"
    /\ Entries["s1"] = Some(heap[The(flows["r1"].sess).data])
    /\ heap[The(flows["r2"].sess).data] # heap[The(flows["r1"].sess).data]

----------------------------------------------------------------------------
(* RedisCache after a failed connection, and the seconds it gives SETEX.   *)

\* C39: once the connect promise of a RedisCache instance is rejected it
\* stays rejected: no step calls client.connect() again or gives the client
\* a command, and every call that completes, whichever of get, set, delete,
\* keys and clearPattern it is, rejects with the connection error.
C39_RejectedStays ==
    [][redis.connect = "rejected" =>
          /\ redis'.connect = "rejected"
          /\ redis'.connects = 1
          /\ redis'.db = redis.db
          /\ \A q \in RedisCallers :
                (redis.procs[q].pc # "done" /\ redis'.procs[q].pc = "done") =>
                    redis'.procs[q].result = Some(Rejected("connectError"))
      ]_vars

\* The connection was refused; a keys() and a clearPattern() have both been
\* rejected with the connection error, and connect() was called once.
C39_Witness ==
    /\ redis.connect = "rejected"
    /\ redis.connects = 1
    /\ redis.procs["q1"].pc = "done" /\ redis.procs["q1"].op = "keys"
    /\ redis.procs["q1"].result = Some(Rejected("connectError"))
    /\ redis.procs["q2"].pc = "done" /\ redis.procs["q2"].op = "clearPattern"
    /\ redis.procs["q2"].result = Some(Rejected("connectError"))

\* C40: a set of RedisCache with a ttl of at least one second gives setEx
\* a whole number of seconds that is at least 1, and a set without ttl
\* gives none (it calls client.set): of every completed set that reached
\* the client.
C40_PositiveSeconds ==
    \A q \in RedisCallers :
        LET p == redis.procs[q]
        IN  (p.pc = "done" /\ p.op = "set" /\ redis.connect = "resolved") =>
                IF TtlArg(p.ttl) = Undefined
                THEN p.ex = Undefined
                ELSE The(TtlArg(p.ttl)) >= 1 => (p.ex # Undefined /\ The(p.ex) >= 1)

\* The same of the sets that do not use the policy Full.
C40_PositiveSecondsOthers ==
    \A q \in RedisCallers :
        LET p == redis.procs[q]
        IN  (/\ p.pc = "done" /\ p.op = "set" /\ redis.connect = "resolved"
             /\ CreateJitter(JitterArg(p.jitter)) # "full") =>
                IF TtlArg(p.ttl) = Undefined
                THEN p.ex = Undefined
                ELSE The(TtlArg(p.ttl)) >= 1 => (p.ex # Undefined /\ The(p.ex) >= 1)
----------------------------------------------------------------------------
(* The program in which two callers call remember() for the key 'k' of the *)
(* root Map-backed cache at the same time, each with its own callback.     *)
(* Nothing else writes or deletes, so a call misses only while no call has *)
(* written yet.                                                            *)

\* What the callback of each caller resolves to.
RaceOutcome(p) == IF p = "p1" THEN Fulfilled(Some("v1")) ELSE Fulfilled(Some("v2"))

RaceInit ==
    /\ Start("memory")
    /\ options \in [maxItems : {Undefined}, defaultTTL : {Undefined}, defaultJitter : {Undefined}]

RaceNext ==
    \/ \E p \in Callers : Remember(p, "base", <<"k">>, Undefined)
    \/ \E p \in Callers : RememberGot(p)
    \/ \E p \in Callers : CallbackSettles(p, RaceOutcome(p))
    \/ \E p \in Callers : RememberReturn(p)
    \/ \E rs \in [1 .. BatchSize -> Rand] : RunImmediate(rs)

RaceSpec == RaceInit /\ [][RaceNext]_vars

\* C11: remember is not at-most-once: when a call that missed k gives the
\* value of its callback to set after another call that missed k has already
\* written, both callbacks have been invoked, both calls write, and get(k)
\* returns the value of the later set.
C11_LastSetWins ==
    [][\A p \in Callers : \A q \in Callers \ {p} :
          (/\ calls[p].pc = "callback"
           /\ calls'[p].pc = "set"
           /\ calls[p].cached = Undefined
           /\ calls[q].cached = Undefined
           /\ calls[q].key = calls[p].key
           /\ calls[q].wrote)
              => /\ calls'[p].wrote
                 /\ calls'[p].invoked = 1
                 /\ calls'[q].invoked = 1
                 /\ MemGetResult(calls[p].cache, calls[p].key)' = The(calls'[p].outcome).value
      ]_vars

\* Both callers have missed 'k', invoked their callbacks and written; "p2"
\* wrote first and "p1" last, and the cache holds the value of "p1".
C11_Witness ==
    /\ \A p \in Callers :
          /\ calls[p].pc = "done"
          /\ calls[p].cached = Undefined
          /\ calls[p].invoked = 1
          /\ calls[p].wrote
    /\ calls["p1"].result = Some(Fulfilled(Some("v1")))
    /\ calls["p2"].result = Some(Fulfilled(Some("v2")))
    /\ MemGetResult("base", <<"k">>) = Some("v1")

----------------------------------------------------------------------------
(* The program that fills the Map of the root cache with up to three       *)
(* entries, one more than a batch, and clears it through the root cache    *)
(* and through the child 'f:'.                                             *)

ClearInit ==
    /\ Start("memory")
    /\ options \in [maxItems : {Undefined}, defaultTTL : {Undefined}, defaultJitter : {Undefined}]

ClearNext ==
    \/ \E key \in FullKeys : MemSet("base", key, "v1", Undefined, Undefined, 0)
    \/ \E c \in MemCaches : \E key \in CallKeys(c) : MemGet(c, key)
    \/ \E c \in MemCaches : \E prefix \in PrefixArgs(c) : MemClear(c, prefix)
    \/ \E rs \in [1 .. BatchSize -> Rand] : RunImmediate(rs)

ClearSpec == ClearInit /\ [][ClearNext]_vars

\* C12: when clear(prefix) has resolved, no entry of the selection (the full
\* keys that start with the key prefix of the cache followed by prefix) is
\* left in the Map, whatever the size of the Map, and the call has changed
\* no entry outside the selection.
C12_ClearRemoves ==
    [][last'.op = "clear" =>
          \A k \in FullKeys :
             IF StartsWith(k, last'.key)
             THEN MapGet(inner', k) = Undefined
             ELSE MapGet(inner', k) = MapGet(inner, k)
      ]_vars

----------------------------------------------------------------------------
(* S3Cache.clearPattern.  The source of the regular expression is built as *)
(* the code builds it; the expression is read as a sequence of atoms, each *)
(* a literal character or `.`, with or without the quantifier `*`.         *)

\* The characters of the class [.*+?^${}()|[\]\\]
RegExpSpecial == {".", "*", "+", "?", "^", "$", "{", "}", "(", ")", "|", "[", "]", "\\"}

\* pattern.replace(/[.*+?^${}()|[\]\\]/g, '\\$&')
RECURSIVE EscapePattern(_)
EscapePattern(s) ==
    IF s = <<>> THEN <<>>
    ELSE (IF Head(s) \in RegExpSpecial THEN <<"\\", Head(s)>> ELSE <<Head(s)>>)
            \o EscapePattern(Tail(s))

\* escapedPattern.replace(/\*/g, '.*')
RECURSIVE ReplaceStars(_)
ReplaceStars(s) ==
    IF s = <<>> THEN <<>>
    ELSE (IF Head(s) = "*" THEN <<".", "*">> ELSE <<Head(s)>>) \o ReplaceStars(Tail(s))

\* The source between '^' and '$' of the expression clearPattern compiles.
PatternSource(pattern) == ReplaceStars(EscapePattern(pattern))

\* new RegExp(source): the atoms of the source.
RECURSIVE RegExpAtoms(_)
RegExpAtoms(src) ==
    IF src = <<>> THEN <<>>
    ELSE LET escaped == Head(src) = "\\" /\ Len(src) >= 2
             width == IF escaped THEN 2 ELSE 1
             rest == SubSeq(src, width + 1, Len(src))
             starred == rest # <<>> /\ Head(rest) = "*"
             atom == [any |-> ~escaped /\ Head(src) = ".",
                      char |-> IF escaped THEN src[2] ELSE Head(src),
                      star |-> starred]
         IN  <<atom>> \o RegExpAtoms(IF starred THEN Tail(rest) ELSE rest)

AtomMatches(atom, ch) == atom.any \/ atom.char = ch

\* The atoms match the whole of s (the expression is anchored by ^ and $).
RECURSIVE MatchAtoms(_, _)
MatchAtoms(atoms, s) ==
    IF atoms = <<>> THEN s = <<>>
    ELSE IF Head(atoms).star
    THEN \/ MatchAtoms(Tail(atoms), s)
         \/ s # <<>> /\ AtomMatches(Head(atoms), Head(s)) /\ MatchAtoms(atoms, Tail(s))
    ELSE s # <<>> /\ AtomMatches(Head(atoms), Head(s)) /\ MatchAtoms(Tail(atoms), Tail(s))

\* rx.test(k)
RegExpTest(pattern, k) == MatchAtoms(RegExpAtoms(PatternSource(pattern)), k)

\* The full keys clearPattern collects in toDel.
S3ToDelete(b, c, pattern) ==
    {Key(c, k) : k \in {x \in S3KeysOf(b, c, Undefined) : RegExpTest(pattern, x)}}

\* clearPattern(pattern): ListObjectsV2, then one DeleteObjects (the keys of
\* the program fit a chunk).  A rejected command rejects the call and
\* deletes nothing.  The result recorded is whether the call resolved.
S3ClearPattern(c, pattern, ok) ==
    /\ LET toDel == S3ToDelete(bucket, c, pattern)
       IN  /\ bucket' = IF ok THEN [k \in DOMAIN bucket |-> IF k \in toDel THEN Undefined ELSE bucket[k]]
                        ELSE bucket
           /\ written' = IF ok THEN Forget(written, toDel) ELSE written
    /\ last' = Done("clearPattern", Key(c, pattern), Some(ok))
    /\ UNCHANGED <<backend, sessVars, objVars, utilVars, options, now, memVars, kvVars, pending, calls, plain>>

----------------------------------------------------------------------------
(* The program that stores objects through the S3Cache instances "base"    *)
(* and "foo" and deletes them with clearPattern.                           *)

PatInit == S3Init

PatNext ==
    \/ \E key \in FullKeys : \E ok \in BOOLEAN : S3Set("base", key, "v1", Undefined, Undefined, 0, ok)
    \/ \E c \in S3Caches : \E key \in CallKeys(c) : \E ok \in BOOLEAN, body \in BOOLEAN : S3Get(c, key, ok, body)
    \/ \E c \in S3Caches : \E prefix \in PrefixArgs(c) : S3Keys(c, prefix)
    \/ \E c \in S3Caches : \E pattern \in Patterns(c) : \E ok \in BOOLEAN : S3ClearPattern(c, pattern, ok)

PatSpec == PatInit /\ [][PatNext]_vars

\* C13: a clearPattern(glob) that resolves deletes exactly the keys of the
\* namespace that match the glob, `*` matching any run of characters and
\* every other character itself, the match anchored at both ends: the
\* objects under matching keys are gone and every other object is as before.
C13_GlobDeletes ==
    [][(last'.op = "clearPattern" /\ last'.result = Some(TRUE)) =>
          \A k \in FullKeys :
             IF Glob(last'.key, k)
             THEN bucket'[k] = Undefined
             ELSE bucket'[k] = bucket[k]
      ]_vars

====
